---- MODULE Spec2Model ----
(***************************************************************************)
(* Compliance calculation engine and risk residual-scoring engine of the   *)
(* complianceHUB backend (src/backend/compliance, controls, risk).         *)
(*                                                                         *)
(* Scores with two decimal places (DecimalField decimal_places=2) are      *)
(* integers counting hundredths: 95.00 is 9500.  Per-control scores are    *)
(* whole points 0..100.  Means of control scores are exact fractions       *)
(* [num, den]; rounding is done where the code rounds.                     *)
(***************************************************************************)
EXTENDS Integers, Sequences, FiniteSets, TLC

(* ------------------------------ bounds -------------------------------- *)
\* rows the ComplianceResult table may hold in a run of Spec
MaxResults == 3
\* rows the ComplianceResult table may hold in a run of SpecCalc
MaxCalcRows == 2
\* last day the clock reaches (days are 0..MaxDay)
MaxDay == 1
\* largest number of evidence links of a control in a run of SpecScore
MaxLinks == 21
\* largest number of evidence links on the varied applied control
MaxEvidence == 2

(* ----------------------------- universe ------------------------------- *)
Companies == {"c1", "c2"}
Frameworks == {"f1", "f2"}
\* department = None (company-wide scope / company-wide control)
NoDept == "none"
Departments == {"d1", "d2"}
\* next_review_date = None
NoDate == -1
Reqs == {"r1", "r2", "r3"}
\* Requirement.Meta.ordering = ['sort_order', 'code']
ReqOrder == <<"r1", "r2", "r3">>
RefControls == {"k1", "k2"}
AcIds == {"a1", "a2", "a3", "a4"}
\* AppliedControl.Meta.ordering = ['reference_control__code']
AcOrder == <<"a1", "a3", "a4", "a2">>
\* points at which a call may raise: while resolving a requirement, while
\* scoring a control, while inserting the new row
FaultPoints == {"none", "resolve", "score", "create"}
\* the requests that may run at the same time
Procs == {"p1", "p2"}

VARIABLES
    requirements,      \* Requirement rows: id -> [framework, is_mandatory, is_deleted]
    mappings,          \* RequirementReferenceControl rows (a set of records)
    applied_controls,  \* AppliedControl rows: id -> record
    adoptions,         \* FrameworkAdoption rows, in queryset order
    today,             \* timezone.now().date()
    results,           \* ComplianceResult table, in insertion order (committed)
    last,              \* outcome of the last engine call (its return / its exception)
    tx,                \* the open database transaction of each concurrent request
    matrices,          \* RiskMatrix table, in creation order
    risks,             \* Risk table, in creation order
    assessments        \* RiskAssessment table, in creation order

vars == <<requirements, mappings, applied_controls, adoptions, today, results, last,
          tx, matrices, risks, assessments>>

(* --------------------------- small helpers ---------------------------- *)
Min(a, b) == IF a < b THEN a ELSE b
Max(a, b) == IF a > b THEN a ELSE b

\* the elements of sequence order that lie in set S, in that order
InOrder(order, S) == SelectSeq(order, LAMBDA x : x \in S)

\* round(x, 2) of the fraction num/den (den > 0, num >= 0), in hundredths;
\* Decimal quantize and float round both round half to even
RoundHundredths(num, den) ==
    LET scaled == num * 100
        q == scaled \div den
        r == scaled % den
    IN  IF 2 * r < den THEN q
        ELSE IF 2 * r > den THEN q + 1
        ELSE IF q % 2 = 0 THEN q ELSE q + 1

\* Python's  a / b * 100  rounded to 2 places; raises ZeroDivisionError on b = 0
PercentOf(num, den) ==
    IF den = 0 THEN [raised |-> TRUE, value |-> 0]
    ELSE [raised |-> FALSE, value |-> RoundHundredths(num * 100, den)]

(* ------------------- AppliedControl (controls/models.py) --------------- *)
status_scores(status) ==
    CASE status = "not_started" -> 0
      [] status = "in_progress" -> 25
      [] status = "implemented" -> 50
      [] status = "testing" -> 60
      [] status = "operational" -> 85
      [] status = "needs_improvement" -> 40
      [] status = "non_compliant" -> 0
      [] OTHER -> 0

is_overdue_for_review(ac, now) ==
    IF ac.next_review_date = NoDate THEN FALSE ELSE now > ac.next_review_date

\* calculate_compliance_score with the evidence bonus added after the penalties
calculate_compliance_score_bonus_last(ac, now) ==
    LET base == status_scores(ac.status)
        s1 == IF ac.has_deficiencies THEN Max(base - 20, 0) ELSE base
        s2 == IF is_overdue_for_review(ac, now) THEN Max(s1 - 10, 0) ELSE s1
        s3 == IF ac.evidence_count > 0
              THEN Min(s2 + ac.evidence_count * 5, 100) ELSE s2
    IN  s3

\* calculate_compliance_score with the evidence bonus left without its cap
calculate_compliance_score_uncapped(ac, now) ==
    LET base == status_scores(ac.status)
        s1 == base + ac.evidence_count * 5
        s2 == IF ac.has_deficiencies THEN Max(s1 - 20, 0) ELSE s1
        s3 == IF is_overdue_for_review(ac, now) THEN Max(s2 - 10, 0) ELSE s2
    IN  s3

calculate_compliance_score(ac, now) ==
    LET base == status_scores(ac.status)
        s1 == IF ac.evidence_count > 0
              THEN Min(base + ac.evidence_count * 5, 100) ELSE base
        s2 == IF ac.has_deficiencies THEN Max(s1 - 20, 0) ELSE s1
        s3 == IF is_overdue_for_review(ac, now) THEN Max(s2 - 10, 0) ELSE s2
    IN  s3

(* ---------------- ComplianceResult rows (compliance/models.py) ---------- *)
\* the scope a row or a call belongs to
ScopeOf(x) == <<x.company, x.framework, x.department>>

\* requirement_details = {} (JSONField default=dict)
EmptyDetails == [r \in {} |-> 0]

\* ComplianceResult.objects.create(...) of the zero-requirement short-circuit:
\* every field not passed takes its model default (is_current default=True)
empty_result(call) ==
    [company |-> call.company, framework |-> call.framework,
     department |-> call.department, calculation_date |-> call.now,
     coverage_percentage |-> 0, compliance_score |-> 0,
     total_requirements |-> 0, requirements_addressed |-> 0,
     requirements_compliant |-> 0, requirements_partial |-> 0,
     requirements_non_compliant |-> 0,
     total_controls |-> 0, controls_operational |-> 0,
     controls_implemented |-> 0, controls_in_progress |-> 0,
     controls_not_started |-> 0,
     controls_with_evidence |-> 0, total_evidence_count |-> 0,
     high_risk_gaps |-> 0, medium_risk_gaps |-> 0, low_risk_gaps |-> 0,
     requirement_details |-> EmptyDetails,
     is_current |-> TRUE, is_deleted |-> FALSE]

(* ------------- ComplianceCalculationService (compliance/services.py) --- *)
\* demote_current without its update: the previous rows stay current
demote_current_skipped(rows, company, framework, department) == rows

\* demote_current with the department left out of the filter
demote_current_any_department(rows, company, framework, department) ==
    [i \in DOMAIN rows |->
        IF /\ rows[i].company = company
           /\ rows[i].framework = framework
           /\ rows[i].is_current
           /\ ~rows[i].is_deleted
        THEN [rows[i] EXCEPT !.is_current = FALSE]
        ELSE rows[i]]

\* ComplianceResult.objects.filter(company, framework, department,
\* is_current=True).update(is_current=False); objects is the TenantManager,
\* which hides soft-deleted rows; department=None matches IS NULL
demote_current(rows, company, framework, department) ==
    [i \in DOMAIN rows |->
        IF /\ rows[i].company = company
           /\ rows[i].framework = framework
           /\ rows[i].department = department
           /\ rows[i].is_current
           /\ ~rows[i].is_deleted
        THEN [rows[i] EXCEPT !.is_current = FALSE]
        ELSE rows[i]]

\* Requirement.objects.filter(framework, is_deleted=False, is_mandatory=True)
mandatory_requirements(reqs, framework) ==
    InOrder(ReqOrder, {r \in DOMAIN reqs :
        /\ reqs[r].framework = framework
        /\ ~reqs[r].is_deleted
        /\ reqs[r].is_mandatory})

\* the reference controls of the validated, non-deleted mappings of a requirement
mapped_controls(maps, requirement) ==
    {m.reference_control : m \in {x \in maps :
        /\ x.requirement = requirement
        /\ x.validation_status = "validated"
        /\ ~x.is_deleted}}

\* AppliedControl.objects.filter(company, reference_control__in, is_deleted=False)
\* and, when a department is given, department = it OR department IS NULL
applied_controls_for(acs, company, department, mapped) ==
    {a \in DOMAIN acs :
        /\ acs[a].company = company
        /\ acs[a].reference_control \in mapped
        /\ ~acs[a].is_deleted
        /\ (department # NoDept =>
               (acs[a].department = department \/ acs[a].department = NoDept))}

\* counters before the requirement loop
initial_counters ==
    [requirements_addressed |-> 0, requirements_compliant |-> 0,
     requirements_partial |-> 0, requirements_non_compliant |-> 0,
     requirement_details |-> EmptyDetails,
     total |-> 0, operational |-> 0, implemented |-> 0,
     in_progress |-> 0, not_started |-> 0,
     controls_with_evidence |-> 0, total_evidence |-> 0,
     points_num |-> 0, points_den |-> 1,
     max_compliance_points |-> 0]

\* the loop "for control in applied_controls": c carries the control scores
\* (their sum and number), the control_info list and the running summaries
RECURSIVE score_controls(_, _, _, _)
score_controls(acs, seq, now, c) ==
    IF seq = <<>> THEN c
    ELSE
      LET control == acs[Head(seq)]
          control_score == calculate_compliance_score(control, now)
          evidence_count == control.evidence_count
          st == control.status
      IN  score_controls(acs, Tail(seq), now,
            [c EXCEPT
               !.sum = @ + control_score,
               !.n = @ + 1,
               !.total = @ + 1,
               !.operational = IF st = "operational" THEN @ + 1 ELSE @,
               !.implemented = IF st # "operational" /\ st \in {"implemented", "testing"}
                               THEN @ + 1 ELSE @,
               !.in_progress = IF st = "in_progress" THEN @ + 1 ELSE @,
               !.not_started = IF st \notin {"operational", "implemented", "testing",
                                             "in_progress"} THEN @ + 1 ELSE @,
               !.controls_with_evidence = IF evidence_count > 0 THEN @ + 1 ELSE @,
               !.total_evidence = IF evidence_count > 0 THEN @ + evidence_count ELSE @,
               !.control_info = Append(@, [id |-> Head(seq), status |-> st,
                                           score |-> control_score,
                                           evidence_count |-> evidence_count])])

\* max_points_step that skips a requirement whose average score is 0
max_points_step_scored_only(avg_num, avg_den) == IF avg_num > 0 THEN 100 ELSE 0

\* max_compliance_points += 100 for a requirement that reached control evaluation
max_points_step(avg_num, avg_den) == 100

\* classify_requirement with the boundaries 85 and 50 given to the lower class
classify_requirement_strict(sum, n) ==
    IF sum > 85 * n THEN "compliant"
    ELSE IF sum > 50 * n THEN "partial"
    ELSE "non_compliant"

\* "Classify requirement" on avg_score = sum / n
classify_requirement(sum, n) ==
    IF sum >= 85 * n THEN "compliant"
    ELSE IF sum >= 50 * n THEN "partial"
    ELSE "non_compliant"

\* requirement_step leaving a requirement without controls out of the counters
requirement_step_uncounted(acc, requirement, mapped, applied, c, req_status) ==
    IF mapped = {} THEN
      [acc EXCEPT
         !.requirement_details = @ @@ (requirement :>
             [status |-> "no_controls", controls |-> <<>>, score |-> 0])]
    ELSE IF applied = {} THEN
      [acc EXCEPT
         !.requirement_details = @ @@ (requirement :>
             [status |-> "not_implemented", controls |-> <<>>, score |-> 0])]
    ELSE
      [acc EXCEPT
         !.requirements_addressed = @ + 1,
         !.requirements_compliant = IF req_status = "compliant" THEN @ + 1 ELSE @,
         !.requirements_partial = IF req_status = "partial" THEN @ + 1 ELSE @,
         !.requirements_non_compliant =
             IF req_status = "non_compliant" THEN @ + 1 ELSE @,
         !.requirement_details = @ @@ (requirement :>
             [status |-> req_status, controls |-> c.control_info,
              score |-> RoundHundredths(c.sum, c.n)]),
         !.total = c.total, !.operational = c.operational,
         !.implemented = c.implemented, !.in_progress = c.in_progress,
         !.not_started = c.not_started,
         !.controls_with_evidence = c.controls_with_evidence,
         !.total_evidence = c.total_evidence,
         !.points_num = @ * c.n + c.sum * acc.points_den,
         !.points_den = @ * c.n,
         !.max_compliance_points = @ + max_points_step(c.sum, c.n)]

\* the body of the loop "for requirement in requirements" once the mapped
\* controls, the applied controls and their scores (c) are known
requirement_step(acc, requirement, mapped, applied, c, req_status) ==
    IF mapped = {} THEN
      [acc EXCEPT
         !.requirements_non_compliant = @ + 1,
         !.requirement_details = @ @@ (requirement :>
             [status |-> "no_controls", controls |-> <<>>, score |-> 0])]
    ELSE IF applied = {} THEN
      [acc EXCEPT
         !.requirements_non_compliant = @ + 1,
         !.requirement_details = @ @@ (requirement :>
             [status |-> "not_implemented", controls |-> <<>>, score |-> 0])]
    ELSE
      [acc EXCEPT
         !.requirements_addressed = @ + 1,
         !.requirements_compliant = IF req_status = "compliant" THEN @ + 1 ELSE @,
         !.requirements_partial = IF req_status = "partial" THEN @ + 1 ELSE @,
         !.requirements_non_compliant =
             IF req_status = "non_compliant" THEN @ + 1 ELSE @,
         !.requirement_details = @ @@ (requirement :>
             [status |-> req_status, controls |-> c.control_info,
              score |-> RoundHundredths(c.sum, c.n)]),
         !.total = c.total, !.operational = c.operational,
         !.implemented = c.implemented, !.in_progress = c.in_progress,
         !.not_started = c.not_started,
         !.controls_with_evidence = c.controls_with_evidence,
         !.total_evidence = c.total_evidence,
         \* total_compliance_points += avg_score  (sum / n, kept exact)
         !.points_num = @ * c.n + c.sum * acc.points_den,
         !.points_den = @ * c.n,
         !.max_compliance_points = @ + max_points_step(c.sum, c.n)]

\* the scores of the applied controls of one requirement, on top of the
\* running control and evidence summaries of acc
requirement_controls(db, call, acc, applied) ==
    score_controls(db.applied_controls, InOrder(AcOrder, applied), call.now,
       [sum |-> 0, n |-> 0, control_info |-> <<>>,
        total |-> acc.total, operational |-> acc.operational,
        implemented |-> acc.implemented, in_progress |-> acc.in_progress,
        not_started |-> acc.not_started,
        controls_with_evidence |-> acc.controls_with_evidence,
        total_evidence |-> acc.total_evidence])

\* one pass of the loop "for requirement in requirements"
analyze_requirement(db, call, acc, requirement) ==
    LET mapped == mapped_controls(db.mappings, requirement)
        applied == applied_controls_for(db.applied_controls, call.company,
                                        call.department, mapped)
        c == requirement_controls(db, call, acc, applied)
    IN  requirement_step(acc, requirement, mapped, applied, c,
                         classify_requirement(c.sum, c.n))

\* the loop "for requirement in requirements"
RECURSIVE analyze_requirements(_, _, _, _)
analyze_requirements(db, call, seq, acc) ==
    IF seq = <<>> THEN acc
    ELSE analyze_requirements(db, call, Tail(seq),
                              analyze_requirement(db, call, acc, Head(seq)))

\* coverage_percentage = (requirements_addressed / total_requirements) * 100
coverage_percentage_of(acc, total_requirements) ==
    PercentOf(acc.requirements_addressed, total_requirements)

\* compliance_score_of without the "if max_compliance_points > 0" guard
compliance_score_unguarded(acc) ==
    PercentOf(acc.points_num, acc.points_den * acc.max_compliance_points)

\* compliance_score = (total / max) * 100 if max_compliance_points > 0 else 0
compliance_score_of(acc) ==
    IF acc.max_compliance_points > 0
    THEN PercentOf(acc.points_num, acc.points_den * acc.max_compliance_points)
    ELSE [raised |-> FALSE, value |-> 0]

\* _identify_gaps: one pass over requirement_details.items()
RECURSIVE identify_gaps_loop(_, _, _)
identify_gaps_loop(details, seq, gap_counts) ==
    IF seq = <<>> THEN gap_counts
    ELSE
      LET st == details[Head(seq)].status
          next == IF st \in {"no_controls", "not_implemented"}
                    THEN [gap_counts EXCEPT !.high = @ + 1]
                  ELSE IF st = "non_compliant"
                    THEN [gap_counts EXCEPT !.high = @ + 1]
                  ELSE IF st = "partial"
                    THEN [gap_counts EXCEPT !.medium = @ + 1]
                  ELSE gap_counts
      IN  identify_gaps_loop(details, Tail(seq), next)

\* _identify_gaps with non_compliant requirements counted as medium gaps
_identify_gaps_non_compliant_medium(requirement_details) ==
    [high |-> Cardinality({r \in DOMAIN requirement_details :
                 requirement_details[r].status \in {"no_controls", "not_implemented"}}),
     medium |-> Cardinality({r \in DOMAIN requirement_details :
                 requirement_details[r].status \in {"partial", "non_compliant"}}),
     low |-> 0]

_identify_gaps(requirement_details) ==
    identify_gaps_loop(requirement_details,
                       InOrder(ReqOrder, DOMAIN requirement_details),
                       [high |-> 0, medium |-> 0, low |-> 0])

\* transaction_atomic without the rollback (the decorator missing)
transaction_not_atomic(savepoint, working, raised) == working

\* @transaction.atomic: on an exception the block's writes are undone
\* (rollback to the savepoint taken on entry), otherwise they are kept
transaction_atomic(savepoint, working, raised) ==
    IF raised THEN savepoint ELSE working

\* "Create compliance result": the row ComplianceResult.objects.create inserts
\* (the short-circuit row when there is no mandatory requirement)
new_result(call, total_requirements, acc, coverage, score, gap_counts) ==
    IF total_requirements = 0 THEN empty_result(call)
    ELSE
      [company |-> call.company, framework |-> call.framework,
       department |-> call.department, calculation_date |-> call.now,
       coverage_percentage |-> coverage.value,
       compliance_score |-> score.value,
       total_requirements |-> total_requirements,
       requirements_addressed |-> acc.requirements_addressed,
       requirements_compliant |-> acc.requirements_compliant,
       requirements_partial |-> acc.requirements_partial,
       requirements_non_compliant |-> acc.requirements_non_compliant,
       total_controls |-> acc.total,
       controls_operational |-> acc.operational,
       controls_implemented |-> acc.implemented,
       controls_in_progress |-> acc.in_progress,
       controls_not_started |-> acc.not_started,
       controls_with_evidence |-> acc.controls_with_evidence,
       total_evidence_count |-> acc.total_evidence,
       high_risk_gaps |-> gap_counts.high,
       medium_risk_gaps |-> gap_counts.medium,
       low_risk_gaps |-> gap_counts.low,
       requirement_details |-> acc.requirement_details,
       is_current |-> TRUE, is_deleted |-> FALSE]

\* whether the call raises: the environment's fault, if the call gets to its
\* point, or a division by zero in "Calculate overall metrics"
call_raises(fault, total_requirements, acc, coverage, score) ==
    \/ fault = "create"
    \/ fault = "resolve" /\ total_requirements > 0
    \/ fault = "score" /\ acc.total > 0
    \/ total_requirements > 0 /\ (coverage.raised \/ score.raised)

\* the end of the call: the table the transaction leaves, and whether it raised
finish_call(rows, demoted, new_row, raised) ==
    [rows |-> transaction_atomic(rows,
                                 IF raised THEN demoted ELSE Append(demoted, new_row),
                                 raised),
     raised |-> raised]

\* the call from "Calculate overall metrics" on
calculate_metrics(rows, call, fault, total_requirements, acc, coverage, score) ==
    finish_call(rows,
                demote_current(rows, call.company, call.framework, call.department),
                new_result(call, total_requirements, acc, coverage, score,
                           _identify_gaps(acc.requirement_details)),
                call_raises(fault, total_requirements, acc, coverage, score))

\* the call once the mandatory requirements (reqs) are selected and analysed (acc)
calculate_analysed(rows, call, fault, total_requirements, acc) ==
    calculate_metrics(rows, call, fault, total_requirements, acc,
                      coverage_percentage_of(acc, total_requirements),
                      compliance_score_of(acc))

\* calculate_selected with requirements_addressed kept in a counter that
\* outlives the call, so that it starts from the rows already written
calculate_selected_shared_counter(rows, db, call, fault, reqs) ==
    calculate_analysed(rows, call, fault, Len(reqs),
                       analyze_requirements(db, call, reqs,
                          [initial_counters EXCEPT !.requirements_addressed = Len(rows)]))

calculate_selected(rows, db, call, fault, reqs) ==
    calculate_analysed(rows, call, fault, Len(reqs),
                       analyze_requirements(db, call, reqs, initial_counters))

\* calculate_framework_compliance(company, framework, department) run at
\* call.now against table rows; fault is the point at which the
\* environment makes the call raise ("none": nowhere)
calculate_framework_compliance(rows, db, call, fault) ==
    calculate_selected(rows, db, call, fault,
                       mandatory_requirements(db.requirements, call.framework))

(* ------------- ComplianceAnalyticsService (compliance/services.py) ----- *)
\* ComplianceResult.get_gap_count
get_gap_count(row) == row.high_risk_gaps + row.medium_risk_gaps + row.low_risk_gaps

\* current_result under the ascending ordering ['calculation_date']
current_result_oldest(rows, company, framework) ==
    IF \A i \in DOMAIN rows : ~(/\ rows[i].company = company
                               /\ rows[i].framework = framework
                               /\ rows[i].is_current
                               /\ ~rows[i].is_deleted)
    THEN 0
    ELSE CHOOSE i \in DOMAIN rows :
           /\ rows[i].company = company /\ rows[i].framework = framework
           /\ rows[i].is_current /\ ~rows[i].is_deleted
           /\ \A j \in DOMAIN rows :
                 (/\ rows[j].company = company /\ rows[j].framework = framework
                  /\ rows[j].is_current /\ ~rows[j].is_deleted) => i <= j

\* ComplianceResult.objects.filter(company, framework, is_current=True,
\* is_deleted=False).first() under Meta.ordering ['-calculation_date']
\* (calculation_date is the creation timestamp): the index of the row read,
\* 0 when there is none
current_result(rows, company, framework) ==
    IF \A i \in DOMAIN rows : ~(/\ rows[i].company = company
                               /\ rows[i].framework = framework
                               /\ rows[i].is_current
                               /\ ~rows[i].is_deleted)
    THEN 0
    ELSE CHOOSE i \in DOMAIN rows :
           /\ rows[i].company = company /\ rows[i].framework = framework
           /\ rows[i].is_current /\ ~rows[i].is_deleted
           /\ \A j \in DOMAIN rows :
                 (/\ rows[j].company = company /\ rows[j].framework = framework
                  /\ rows[j].is_current /\ ~rows[j].is_deleted) => j <= i

\* is_gap with partial left out of the statuses that make a gap
is_gap_without_partial(status) ==
    status \in {"no_controls", "not_implemented", "non_compliant"}

\* the statuses get_gap_analysis turns into a gap
is_gap(status) ==
    status \in {"no_controls", "not_implemented", "non_compliant", "partial"}

\* "Determine severity"
gap_severity(status) ==
    IF status \in {"no_controls", "not_implemented"} THEN "high"
    ELSE IF status = "non_compliant" THEN "high"
    ELSE IF status = "partial" THEN "medium"
    ELSE "unset"

\* the gaps list built from requirement_details.items()
gap_list(details) ==
    [k \in DOMAIN InOrder(ReqOrder, {r \in DOMAIN details : is_gap(details[r].status)}) |->
       [requirement |->
           InOrder(ReqOrder, {r \in DOMAIN details : is_gap(details[r].status)})[k],
        status |->
           details[InOrder(ReqOrder,
                      {r \in DOMAIN details : is_gap(details[r].status)})[k]].status,
        score |->
           details[InOrder(ReqOrder,
                      {r \in DOMAIN details : is_gap(details[r].status)})[k]].score,
        severity |->
           gap_severity(details[InOrder(ReqOrder,
                      {r \in DOMAIN details : is_gap(details[r].status)})[k]].status)]]

\* the dict get_gap_analysis returns for a gaps list
gap_report(gaps) ==
    [gaps |-> gaps, total |-> Len(gaps),
     by_severity |->
        [high |-> Len(SelectSeq(gaps, LAMBDA g : g.severity = "high")),
         medium |-> Len(SelectSeq(gaps, LAMBDA g : g.severity = "medium")),
         low |-> Len(SelectSeq(gaps, LAMBDA g : g.severity = "low"))]]

\* ComplianceAnalyticsService.get_gap_analysis(company, framework)
get_gap_analysis(rows, company, framework) ==
    IF current_result(rows, company, framework) = 0
    THEN [gaps |-> <<>>, total |-> 0]
    ELSE gap_report(gap_list(
            rows[current_result(rows, company, framework)].requirement_details))

(* ------------- ComplianceRecommendationService (compliance/services.py) - *)
\* the slice [:10] of the two control queries and the slice [:20] of the result
QueryLimit == 10
TopActions == 20

\* seq[:k]
first_rows(seq, k) == SubSeq(seq, 1, Min(k, Len(seq)))

\* "1. Address missing controls": one action per entry of
\* requirement_details with status no_controls or not_implemented
missing_control_actions(details) ==
    [k \in DOMAIN InOrder(ReqOrder,
          {r \in DOMAIN details : details[r].status \in {"no_controls", "not_implemented"}}) |->
       [priority |-> "critical", type |-> "implement_controls",
        target |-> InOrder(ReqOrder,
          {r \in DOMAIN details :
              details[r].status \in {"no_controls", "not_implemented"}})[k]]]

\* controls_no_evidence without the slice
controls_no_evidence_unlimited(acs, order, company) ==
    InOrder(order, {a \in DOMAIN acs : /\ acs[a].company = company
                                       /\ ~acs[a].is_deleted
                                       /\ acs[a].evidence_count = 0})

\* AppliedControl.objects.filter(company, is_deleted=False).annotate(
\*     evidence_count=Count(...)).filter(evidence_count=0)[:10], in the
\* order of Meta.ordering ['reference_control__code']
controls_no_evidence(acs, order, company) ==
    first_rows(InOrder(order, {a \in DOMAIN acs : /\ acs[a].company = company
                                                  /\ ~acs[a].is_deleted
                                                  /\ acs[a].evidence_count = 0}),
               QueryLimit)

\* AppliedControl.objects.filter(company, is_deleted=False)
\*     .filter(next_review_date__lt=today)[:10]
overdue_controls(acs, order, company, now) ==
    first_rows(InOrder(order, {a \in DOMAIN acs : /\ acs[a].company = company
                                                  /\ ~acs[a].is_deleted
                                                  /\ acs[a].next_review_date # NoDate
                                                  /\ acs[a].next_review_date < now}),
               QueryLimit)

\* the actions appended for a list of controls
control_actions(controls, priority, type) ==
    [k \in DOMAIN controls |->
        [priority |-> priority, type |-> type, target |-> controls[k]]]

\* priority_order.get(x['priority'], 99)
priority_order(priority) ==
    CASE priority = "critical" -> 0 [] priority = "high" -> 1
      [] priority = "medium" -> 2 [] priority = "low" -> 3 [] OTHER -> 99

\* actions.sort(key=...): list.sort is stable
sort_by_priority(actions) ==
    SelectSeq(actions, LAMBDA x : priority_order(x.priority) = 0)
      \o SelectSeq(actions, LAMBDA x : priority_order(x.priority) = 1)
      \o SelectSeq(actions, LAMBDA x : priority_order(x.priority) = 2)
      \o SelectSeq(actions, LAMBDA x : priority_order(x.priority) = 3)
      \o SelectSeq(actions, LAMBDA x : priority_order(x.priority) = 99)

\* the actions list of get_prioritized_actions once sorted, for the result
\* row it read
sorted_actions(row, acs, order, company, now) ==
    sort_by_priority(
        missing_control_actions(row.requirement_details)
          \o control_actions(controls_no_evidence(acs, order, company),
                             "high", "add_evidence")
          \o control_actions(overdue_controls(acs, order, company, now),
                             "medium", "review_control"))

\* ComplianceRecommendationService.get_prioritized_actions(company, framework)
get_prioritized_actions(rows, acs, order, company, framework, now) ==
    IF current_result(rows, company, framework) = 0 THEN <<>>
    ELSE first_rows(sorted_actions(rows[current_result(rows, company, framework)],
                                   acs, order, company, now),
                    TopActions)

(* ------------- calculate_all_frameworks (compliance/services.py) ------- *)
\* FrameworkAdoption.objects.filter(company, is_deleted=False): the frameworks
adopted_frameworks(adopts, company) ==
    LET live == SelectSeq(adopts, LAMBDA a : a.company = company /\ ~a.is_deleted)
    IN  [i \in DOMAIN live |-> live[i].framework]

\* calculate_all_frameworks: the loop over the adoptions; the fault_at-th
\* call raises (0: none does) and the exception leaves the loop
RECURSIVE calculate_all_loop(_, _, _, _, _, _, _)
calculate_all_after(out, db, company, now, fws, i, fault_at) ==
    IF out.raised THEN [rows |-> out.rows, raised |-> TRUE, done |-> i - 1]
    ELSE calculate_all_loop(out.rows, db, company, now, fws, i + 1, fault_at)

calculate_all_loop(rows, db, company, now, fws, i, fault_at) ==
    IF i > Len(fws) THEN [rows |-> rows, raised |-> FALSE, done |-> Len(fws)]
    ELSE calculate_all_after(
           calculate_framework_compliance(rows, db,
              [company |-> company, framework |-> fws[i],
               department |-> NoDept, now |-> now],
              IF i = fault_at THEN "create" ELSE "none"),
           db, company, now, fws, i, fault_at)

calculate_all_frameworks(rows, db, adopts, company, now, fault_at) ==
    calculate_all_loop(rows, db, company, now, adopted_frameworks(adopts, company),
                       1, fault_at)

\* the end of a request under ATOMIC_REQUESTS: the request is one transaction,
\* rolled back only when an exception escapes the view
request_exit(rows, out, escaped) ==
    [rows |-> transaction_atomic(rows, out.rows, escaped),
     raised |-> out.raised, done |-> out.done]

\* calculate_all without its try/except: the exception escapes the view
calculate_all_uncaught(rows, db, adopts, company, now, fault_at) ==
    request_exit(rows,
                 calculate_all_frameworks(rows, db, adopts, company, now, fault_at),
                 calculate_all_frameworks(rows, db, adopts, company, now, fault_at).raised)

\* ComplianceResultViewSet.calculate_all: the view turns every exception of
\* calculate_all_frameworks into a 500 response, so none escapes
calculate_all(rows, db, adopts, company, now, fault_at) ==
    request_exit(rows,
                 calculate_all_frameworks(rows, db, adopts, company, now, fault_at),
                 FALSE)

(* ------------------------------- state -------------------------------- *)
DB == [requirements |-> requirements, mappings |-> mappings,
       applied_controls |-> applied_controls]

NoCall == [op |-> "none", company |-> "c1", framework |-> "f1",
           department |-> NoDept, fault |-> "none", raised |-> FALSE, done |-> 0]

Requirement(framework, is_mandatory, is_deleted) ==
    [framework |-> framework, is_mandatory |-> is_mandatory, is_deleted |-> is_deleted]

Mapping(requirement, reference_control, validation_status, is_deleted) ==
    [requirement |-> requirement, reference_control |-> reference_control,
     validation_status |-> validation_status, is_deleted |-> is_deleted]

AppliedControl(company, reference_control, department, status, evidence, deficient, review) ==
    [company |-> company, reference_control |-> reference_control,
     department |-> department, status |-> status,
     evidence_count |-> evidence, has_deficiencies |-> deficient,
     next_review_date |-> review, is_deleted |-> FALSE]

Adoption(company, framework) ==
    [company |-> company, framework |-> framework, is_deleted |-> FALSE]

\* c1 adopted f1 and f2, c2 adopted f1
InitAdoptions ==
    adoptions = <<Adoption("c1", "f1"), Adoption("c1", "f2"), Adoption("c2", "f1")>>

\* the catalogue and the controls of the runs that follow the is_current flag:
\* f1 has two mandatory requirements, f2 has none
InitCatalogue ==
    /\ requirements = [r \in Reqs |->
          CASE r = "r1" -> Requirement("f1", TRUE, FALSE)
            [] r = "r2" -> Requirement("f1", TRUE, FALSE)
            [] OTHER -> Requirement("f2", FALSE, FALSE)]
    /\ mappings = {Mapping("r1", "k1", "validated", FALSE),
                   Mapping("r2", "k2", "validated", FALSE),
                   Mapping("r3", "k1", "validated", FALSE)}
    /\ applied_controls = [a \in AcIds |->
          CASE a = "a1" -> AppliedControl("c1", "k1", NoDept, "operational", 2, FALSE, NoDate)
            [] a = "a2" -> AppliedControl("c1", "k2", "d2", "in_progress", 0, FALSE, 0)
            [] a = "a3" -> AppliedControl("c2", "k1", NoDept, "implemented", 0, FALSE, NoDate)
            [] OTHER -> AppliedControl("c1", "k1", "d1", "testing", 1, TRUE, NoDate)]

\* no request has a transaction open
NoTx == [p \in Procs |->
           [pc |-> "idle", company |-> "c1", framework |-> "f1", department |-> NoDept,
            targets |-> {}, locked |-> {}, new_row |-> <<>>]]

\* the risk tables are empty
InitNoRisk ==
    /\ matrices = <<>>
    /\ risks = <<>>
    /\ assessments = <<>>

Init ==
    /\ InitCatalogue
    /\ InitAdoptions
    /\ today = 0
    /\ results = <<>>
    /\ last = NoCall
    /\ tx = NoTx
    /\ InitNoRisk

\* the scopes the calls of Spec are made for: they differ from the first in
\* the department, the framework and the company
Scopes == {<<"c1", "f1", NoDept>>, <<"c1", "f1", "d1">>,
           <<"c1", "f2", NoDept>>, <<"c2", "f1", NoDept>>}

World == <<requirements, mappings, applied_controls, adoptions>>
RiskTables == <<matrices, risks, assessments>>

\* one call of calculate_framework_compliance(company, framework, department)
Calculate(company, framework, department, fault) ==
    /\ Len(results) < MaxResults
    /\ \E out \in {calculate_framework_compliance(results, DB,
                     [company |-> company, framework |-> framework,
                      department |-> department, now |-> today], fault)} :
           /\ results' = out.rows
           /\ last' = [op |-> "calculate", company |-> company,
                       framework |-> framework, department |-> department,
                       fault |-> fault, raised |-> out.raised, done |-> 0]
    /\ UNCHANGED <<World, today, tx, RiskTables>>

\* one POST calculate_all for a company
CalculateAll(company, fault_at) ==
    /\ Len(results) + Len(adopted_frameworks(adoptions, company)) <= MaxResults
    /\ fault_at <= Len(adopted_frameworks(adoptions, company))
    /\ \E out \in {calculate_all(results, DB, adoptions, company, today, fault_at)} :
           /\ results' = out.rows
           /\ last' = [op |-> "calculate_all", company |-> company,
                       framework |-> "f1", department |-> NoDept,
                       fault |-> IF fault_at = 0 THEN "none" ELSE "create",
                       raised |-> out.raised, done |-> out.done]
    /\ UNCHANGED <<World, today, tx, RiskTables>>

Next ==
    \/ \E s \in Scopes, fault \in FaultPoints : Calculate(s[1], s[2], s[3], fault)
    \/ \E company \in Companies, fault_at \in 0..2 : CalculateAll(company, fault_at)

Spec == Init /\ [][Next]_vars

(* ------------- runs that vary the catalogue and the controls ----------- *)
\* f2 has no mandatory requirement; f1 comes in every combination of: r1
\* mandatory or not, r2 deleted or not, the r1-k1
\* mapping validated or pending, a1's status, evidence and deficiency flag,
\* a4's status, a2's review date
InitCalc ==
    /\ \E m1 \in BOOLEAN, d2 \in BOOLEAN :
          requirements = [r \in Reqs |->
             CASE r = "r1" -> Requirement("f1", m1, FALSE)
               [] r = "r2" -> Requirement("f1", TRUE, d2)
               [] OTHER -> Requirement("f2", FALSE, FALSE)]
    /\ \E v \in {"validated", "pending"} :
          mappings = {Mapping("r1", "k1", v, FALSE),
                      Mapping("r2", "k2", "validated", FALSE),
                      Mapping("r2", "k1", "validated", TRUE),
                      Mapping("r3", "k1", "validated", FALSE)}
    /\ \E st1 \in {"not_started", "operational"}, ev \in 0..MaxEvidence,
          def \in BOOLEAN, st4 \in {"not_started", "operational"},
          rv \in {NoDate, 0} :
          applied_controls = [a \in AcIds |->
             CASE a = "a1" -> AppliedControl("c1", "k1", NoDept, st1, ev, def, NoDate)
               [] a = "a2" -> AppliedControl("c1", "k2", "d2", "implemented", 0, FALSE, rv)
               [] a = "a3" -> AppliedControl("c2", "k1", NoDept, "operational", 3, FALSE, NoDate)
               [] OTHER -> AppliedControl("c1", "k1", "d1", st4, 0, FALSE, NoDate)]
    /\ InitAdoptions
    /\ today = 0
    /\ results = <<>>
    /\ last = NoCall
    /\ tx = NoTx
    /\ InitNoRisk

CalcScopes == {<<"c1", "f1", NoDept>>, <<"c1", "f1", "d1">>, <<"c1", "f2", NoDept>>}

\* a calculation of the varied runs; no fault is injected
CalculateNow(company, framework, department) ==
    /\ Len(results) < MaxCalcRows
    /\ \E out \in {calculate_framework_compliance(results, DB,
                     [company |-> company, framework |-> framework,
                      department |-> department, now |-> today], "none")} :
           /\ results' = out.rows
           /\ last' = [op |-> "calculate", company |-> company,
                       framework |-> framework, department |-> department,
                       fault |-> "none", raised |-> out.raised, done |-> 0]
    /\ UNCHANGED <<World, today, tx, RiskTables>>

\* a day passes
Tick ==
    /\ today < MaxDay
    /\ today' = today + 1
    /\ UNCHANGED <<World, results, last, tx, RiskTables>>

\* a read of the gap analysis of a company and framework
GapAnalysis(company, framework) ==
    /\ last' = [op |-> "gap_analysis", company |-> company, framework |-> framework,
                result |-> current_result(results, company, framework),
                out |-> get_gap_analysis(results, company, framework)]
    /\ UNCHANGED <<World, today, results, tx, RiskTables>>

NextCalc ==
    \/ \E s \in CalcScopes : CalculateNow(s[1], s[2], s[3])
    \/ Tick
    \/ \E framework \in Frameworks : GapAnalysis("c1", framework)

SpecCalc == InitCalc /\ [][NextCalc]_vars

(* ---------------- runs that score one applied control ------------------ *)
\* AppliedControl.status choices
Statuses == {"not_started", "in_progress", "implemented", "testing", "operational",
             "needs_improvement", "non_compliant"}

\* a1 has any status, deficiency flag and review date, and no evidence yet
InitScore ==
    /\ requirements = [r \in Reqs |-> Requirement("f1", TRUE, FALSE)]
    /\ mappings = {Mapping("r1", "k1", "validated", FALSE)}
    /\ \E st \in Statuses, def \in BOOLEAN, rv \in {NoDate, 0} :
          applied_controls = [a \in AcIds |->
             CASE a = "a1" -> AppliedControl("c1", "k1", NoDept, st, 0, def, rv)
               [] a = "a2" -> AppliedControl("c1", "k2", "d2", "implemented", 0, FALSE, NoDate)
               [] a = "a3" -> AppliedControl("c2", "k1", NoDept, "operational", 3, FALSE, NoDate)
               [] OTHER -> AppliedControl("c1", "k1", "d1", "testing", 1, TRUE, 0)]
    /\ InitAdoptions
    /\ today = 0
    /\ results = <<>>
    /\ last = NoCall
    /\ tx = NoTx
    /\ InitNoRisk

\* one call of control.calculate_compliance_score(); last keeps what the
\* control looked like at the call and what the call returned
ScoreControl(a) ==
    /\ last' = [op |-> "score", control |-> a,
                status |-> applied_controls[a].status,
                evidence_count |-> applied_controls[a].evidence_count,
                has_deficiencies |-> applied_controls[a].has_deficiencies,
                overdue |-> is_overdue_for_review(applied_controls[a], today),
                score |-> calculate_compliance_score(applied_controls[a], today)]
    /\ UNCHANGED <<World, today, results, tx, RiskTables>>

\* an evidence item is linked to a control (a new AppliedControlEvidence row)
LinkEvidence(a) ==
    /\ applied_controls[a].evidence_count < MaxLinks
    /\ applied_controls' = [applied_controls EXCEPT ![a].evidence_count = @ + 1]
    /\ last' = [op |-> "link_evidence", control |-> a]
    /\ UNCHANGED <<requirements, mappings, adoptions, today, results, tx, RiskTables>>

NextScore ==
    \/ \E a \in AcIds : ScoreControl(a)
    \/ LinkEvidence("a1")
    \/ Tick

SpecScore == InitScore /\ [][NextScore]_vars

(* ------- concurrent calculations (PostgreSQL at READ COMMITTED) -------- *)
\* Each request is one transaction (ATOMIC_REQUESTS) running the statements
\* of calculate_framework_compliance; DATABASES sets no isolation level, so
\* the engine default READ COMMITTED applies: a statement sees the rows
\* committed before it started, an UPDATE waits for the row locks of an open
\* transaction and then re-checks its WHERE clause on the committed version
\* of each row it found, and rows inserted by others after the statement
\* started are not seen by it.
\* rows the ComplianceResult table may hold in a run of SpecConc
MaxConcRows == 3

\* the scopes the concurrent requests are made for
ConcScopes == {<<"c1", "f1", NoDept>>, <<"c1", "f2", NoDept>>}

\* the rows the demotion UPDATE finds in the snapshot of table rows
update_scan(rows, company, framework, department) ==
    {i \in DOMAIN rows :
        demote_current(rows, company, framework, department)[i] # rows[i]}

\* the rows of its scan that the UPDATE changes once it holds their locks:
\* those that still satisfy is_current=True in their committed version
update_recheck(rows, targets) == {i \in targets : rows[i].is_current}

\* COMMIT: the transaction's demotions and its inserted row become visible
commit(rows, locked, new_row) ==
    [i \in DOMAIN rows |->
        IF i \in locked THEN [rows[i] EXCEPT !.is_current = FALSE] ELSE rows[i]]
    \o new_row

\* a request enters calculate_framework_compliance and its UPDATE statement
\* starts, taking its snapshot
TxUpdateScan(p, company, framework, department) ==
    /\ tx[p].pc = "idle"
    /\ Len(results) + Cardinality({q \in Procs : tx[q].pc # "idle"}) < MaxConcRows
    /\ tx' = [tx EXCEPT ![p] =
                [pc |-> "scanned", company |-> company, framework |-> framework,
                 department |-> department,
                 targets |-> update_scan(results, company, framework, department),
                 locked |-> {}, new_row |-> <<>>]]
    /\ UNCHANGED <<World, today, results, last, RiskTables>>

\* the UPDATE gets the locks of the rows it found (it waits while another open
\* transaction holds one of them) and demotes those that are still current
TxUpdateApply(p) ==
    /\ tx[p].pc = "scanned"
    /\ \A q \in Procs \ {p} : tx[q].locked \cap tx[p].targets = {}
    /\ tx' = [tx EXCEPT ![p].pc = "demoted",
                        ![p].locked = update_recheck(results, tx[p].targets)]
    /\ UNCHANGED <<World, today, results, last, RiskTables>>

\* the analysis and ComplianceResult.objects.create: the new row is written
\* inside the transaction
TxInsert(p) ==
    /\ tx[p].pc = "demoted"
    /\ \E out \in {calculate_framework_compliance(<<>>, DB,
                     [company |-> tx[p].company, framework |-> tx[p].framework,
                      department |-> tx[p].department, now |-> today], "none")} :
           tx' = [tx EXCEPT ![p].pc = "inserted", ![p].new_row = out.rows]
    /\ UNCHANGED <<World, today, results, last, RiskTables>>

\* the request ends and its transaction commits
TxCommit(p) ==
    /\ tx[p].pc = "inserted"
    /\ results' = commit(results, tx[p].locked, tx[p].new_row)
    /\ last' = [op |-> "commit", company |-> tx[p].company,
                framework |-> tx[p].framework, department |-> tx[p].department,
                fault |-> "none", raised |-> FALSE, done |-> Cardinality(tx[p].locked)]
    /\ tx' = [tx EXCEPT ![p] = NoTx[p]]
    /\ UNCHANGED <<World, today, RiskTables>>

NextConc ==
    \/ \E p \in Procs, s \in ConcScopes : TxUpdateScan(p, s[1], s[2], s[3])
    \/ \E p \in Procs : TxUpdateApply(p)
    \/ \E p \in Procs : TxInsert(p)
    \/ \E p \in Procs : TxCommit(p)

SpecConc == Init /\ [][NextConc]_vars

(* ------------------- risk matrix (risk/models.py) ---------------------- *)
\* rows the RiskMatrix, Risk and RiskAssessment tables may hold together in
\* a run of SpecRisk
MaxRiskRows == 5

\* the effectiveness rating and the notes an assessment request may carry
\* (effectiveness_rating is read from request.data and passed on unvalidated)
AssessInputs == {<<-50, "">>, <<45, "note">>, <<100, "">>}
\* inherent likelihood and impact a risk may be created with
RiskInputs == {<<3, 3>>, <<5, 4>>}
\* the applied controls assessments are made against
RiskControls == {"a1", "a2", "a3"}
NoMatrix == 0

NoScoreMatrix == [k \in {} |-> 0]

\* calculate_risk_score ignoring the stored table
calculate_risk_score_product_only(matrix, likelihood, impact) ==
    IF likelihood < 1 \/ likelihood > matrix.likelihood_levels
      THEN [raised |-> TRUE, value |-> 0]
    ELSE IF impact < 1 \/ impact > matrix.impact_levels
      THEN [raised |-> TRUE, value |-> 0]
    ELSE [raised |-> FALSE, value |-> likelihood * impact]

\* calculate_risk_score without the check of the impact
calculate_risk_score_unchecked_impact(matrix, likelihood, impact) ==
    IF likelihood < 1 \/ likelihood > matrix.likelihood_levels
      THEN [raised |-> TRUE, value |-> 0]
    ELSE IF <<likelihood, impact>> \in DOMAIN matrix.risk_score_matrix
      THEN [raised |-> FALSE, value |-> matrix.risk_score_matrix[<<likelihood, impact>>]]
    ELSE [raised |-> FALSE, value |-> likelihood * impact]

\* RiskMatrix.calculate_risk_score; raised stands for its ValueError
calculate_risk_score(matrix, likelihood, impact) ==
    IF likelihood < 1 \/ likelihood > matrix.likelihood_levels
      THEN [raised |-> TRUE, value |-> 0]
    ELSE IF impact < 1 \/ impact > matrix.impact_levels
      THEN [raised |-> TRUE, value |-> 0]
    ELSE IF <<likelihood, impact>> \in DOMAIN matrix.risk_score_matrix
      THEN [raised |-> FALSE, value |-> matrix.risk_score_matrix[<<likelihood, impact>>]]
    ELSE [raised |-> FALSE, value |-> likelihood * impact]

\* get_risk_level with a threshold value counted in the lower level
get_risk_level_inclusive(matrix, score) ==
    IF score <= matrix.low_risk_threshold THEN "low"
    ELSE IF score <= matrix.medium_risk_threshold THEN "medium"
    ELSE IF score <= matrix.high_risk_threshold THEN "high"
    ELSE "critical"

\* RiskMatrix.get_risk_level
get_risk_level(matrix, score) ==
    IF score < matrix.low_risk_threshold THEN "low"
    ELSE IF score < matrix.medium_risk_threshold THEN "medium"
    ELSE IF score < matrix.high_risk_threshold THEN "high"
    ELSE "critical"

\* the row RiskMatrix.create_default_5x5_matrix(company) creates
create_default_5x5_matrix(company) ==
    [company |-> company, likelihood_levels |-> 5, impact_levels |-> 5,
     risk_score_matrix |-> [k \in (1..5) \X (1..5) |-> k[1] * k[2]],
     low_risk_threshold |-> 6, medium_risk_threshold |-> 12,
     high_risk_threshold |-> 20,
     is_active |-> TRUE, is_deleted |-> FALSE]

\* the row POST /matrices/ creates: serializer.save(company=tenant) stores the
\* submitted fields, with the model defaults for the thresholds and an empty
\* risk_score_matrix; RiskMatrix.clean() is not run
submitted_matrix(company, levels, is_active) ==
    [company |-> company, likelihood_levels |-> levels, impact_levels |-> levels,
     risk_score_matrix |-> NoScoreMatrix,
     low_risk_threshold |-> 5, medium_risk_threshold |-> 10,
     high_risk_threshold |-> 15,
     is_active |-> is_active, is_deleted |-> FALSE]

\* RiskMatrix.objects.filter(company, is_active=True, is_deleted=False)
active_matrices(ms, company) ==
    {i \in DOMAIN ms : /\ ms[i].company = company
                       /\ ms[i].is_active
                       /\ ~ms[i].is_deleted}

\* .first() under Meta.ordering ['-is_active', '-created_at']: the active
\* matrix created last
first_active(ms, company) ==
    CHOOSE i \in active_matrices(ms, company) :
        \A j \in active_matrices(ms, company) : j <= i

\* RiskMatrix.activate
activate(ms, m) ==
    [i \in DOMAIN ms |->
        IF i = m THEN [ms[i] EXCEPT !.is_active = TRUE]
        ELSE IF ms[i].company = ms[m].company /\ ~ms[i].is_deleted
          THEN [ms[i] EXCEPT !.is_active = FALSE]
        ELSE ms[i]]

(* --------------------- risks (risk/models.py, views.py) ---------------- *)
\* Risk.save: the inherent score and level come from the risk's matrix
risk_save(ms, risk) ==
    [raised |-> calculate_risk_score(ms[risk.risk_matrix], risk.inherent_likelihood,
                                     risk.inherent_impact).raised,
     row |-> [risk EXCEPT
        !.inherent_risk_score =
            calculate_risk_score(ms[risk.risk_matrix], risk.inherent_likelihood,
                                 risk.inherent_impact).value,
        !.inherent_risk_level =
            get_risk_level(ms[risk.risk_matrix],
                calculate_risk_score(ms[risk.risk_matrix], risk.inherent_likelihood,
                                     risk.inherent_impact).value)]]

\* the matrix table once RiskViewSet.perform_create has resolved the matrix:
\* without a submitted matrix and without an active one the default is created
matrices_for_risk(ms, company, risk_matrix) ==
    IF risk_matrix = NoMatrix /\ active_matrices(ms, company) = {}
    THEN Append(ms, create_default_5x5_matrix(company))
    ELSE ms

\* the matrix RiskViewSet.perform_create gives the risk (ms1 is the table
\* matrices_for_risk returned)
matrix_for_risk(ms1, company, risk_matrix) ==
    IF risk_matrix # NoMatrix THEN risk_matrix ELSE first_active(ms1, company)

\* the end of perform_create: an exception of Risk.save escapes the view and
\* the request's transaction is rolled back
risk_created(ms, rs, ms1, saved) ==
    [matrices |-> transaction_atomic(ms, ms1, saved.raised),
     risks |-> transaction_atomic(rs, Append(rs, saved.row), saved.raised),
     raised |-> saved.raised]

\* RiskViewSet.perform_create
perform_create(ms, rs, company, risk_matrix, likelihood, impact) ==
    risk_created(ms, rs, matrices_for_risk(ms, company, risk_matrix),
        risk_save(matrices_for_risk(ms, company, risk_matrix),
            [company |-> company,
             risk_matrix |-> matrix_for_risk(matrices_for_risk(ms, company, risk_matrix),
                                             company, risk_matrix),
             inherent_likelihood |-> likelihood, inherent_impact |-> impact,
             inherent_risk_score |-> 0, inherent_risk_level |-> "",
             is_deleted |-> FALSE]))

(* ------------- risk assessments (risk/services.py, models.py) ---------- *)
\* reduction_of rounding to the nearest point instead of truncating
reduction_of_rounded(effectiveness_rating) ==
    (effectiveness_rating * 2 + 50) \div 100

\* int(effectiveness_rating / 100.0 * 2): int() truncates towards zero
reduction_of(effectiveness_rating) ==
    IF effectiveness_rating >= 0 THEN (effectiveness_rating * 2) \div 100
    ELSE 0 - (((0 - effectiveness_rating) * 2) \div 100)

control_effectiveness_of(effectiveness_rating) ==
    IF effectiveness_rating >= 90 THEN "highly_effective"
    ELSE IF effectiveness_rating >= 70 THEN "effective"
    ELSE IF effectiveness_rating >= 40 THEN "partially_effective"
    ELSE "not_effective"

\* RiskAssessment.save: the residual score and level come from the matrix of
\* the assessment's risk
assessment_save(ms, rs, a) ==
    [raised |-> calculate_risk_score(ms[rs[a.risk].risk_matrix], a.residual_likelihood,
                                     a.residual_impact).raised,
     row |-> [a EXCEPT
        !.residual_score =
            calculate_risk_score(ms[rs[a.risk].risk_matrix], a.residual_likelihood,
                                 a.residual_impact).value,
        !.residual_risk_level =
            get_risk_level(ms[rs[a.risk].risk_matrix],
                calculate_risk_score(ms[rs[a.risk].risk_matrix], a.residual_likelihood,
                                     a.residual_impact).value)]]

\* demote_assessments with the applied control added to the filter
demote_assessments_of_control(rows, risk, applied_control) ==
    [i \in DOMAIN rows |->
        IF /\ rows[i].risk = risk
           /\ rows[i].applied_control = applied_control
           /\ rows[i].is_current
           /\ ~rows[i].is_deleted
        THEN [rows[i] EXCEPT !.is_current = FALSE]
        ELSE rows[i]]

\* RiskAssessment.objects.filter(risk=risk, is_current=True)
\*     .update(is_current=False); objects hides soft-deleted rows
demote_assessments(rows, risk, applied_control) ==
    [i \in DOMAIN rows |->
        IF /\ rows[i].risk = risk
           /\ rows[i].is_current
           /\ ~rows[i].is_deleted
        THEN [rows[i] EXCEPT !.is_current = FALSE]
        ELSE rows[i]]

\* new_assessment without the floor max(1, ...) of the residual pair
new_assessment_unfloored(rs, risk, applied_control, effectiveness_rating, now) ==
    [company |-> rs[risk].company, risk |-> risk,
     applied_control |-> applied_control,
     control_effectiveness |-> control_effectiveness_of(effectiveness_rating),
     effectiveness_rating |-> effectiveness_rating,
     residual_likelihood |->
        rs[risk].inherent_likelihood - reduction_of(effectiveness_rating),
     residual_impact |->
        rs[risk].inherent_impact - reduction_of(effectiveness_rating),
     residual_score |-> 0, residual_risk_level |-> "",
     assessment_date |-> now, assessment_notes |-> "",
     is_current |-> TRUE, is_deleted |-> FALSE]

\* the fields RiskAssessment.objects.create is called with
new_assessment(rs, risk, applied_control, effectiveness_rating, now) ==
    [company |-> rs[risk].company, risk |-> risk,
     applied_control |-> applied_control,
     control_effectiveness |-> control_effectiveness_of(effectiveness_rating),
     effectiveness_rating |-> effectiveness_rating,
     residual_likelihood |->
        Max(1, rs[risk].inherent_likelihood - reduction_of(effectiveness_rating)),
     residual_impact |->
        Max(1, rs[risk].inherent_impact - reduction_of(effectiveness_rating)),
     residual_score |-> 0, residual_risk_level |-> "",
     assessment_date |-> now, assessment_notes |-> "",
     is_current |-> TRUE, is_deleted |-> FALSE]

\* the end of assess_risk_with_control under @transaction.atomic
assessed(rows, demoted, saved) ==
    [rows |-> transaction_atomic(rows, Append(demoted, saved.row), saved.raised),
     raised |-> saved.raised]

\* RiskCalculationService.assess_risk_with_control
assess_risk_with_control(rows, ms, rs, risk, applied_control, effectiveness_rating, now) ==
    assessed(rows, demote_assessments(rows, risk, applied_control),
             assessment_save(ms, rs,
                new_assessment(rs, risk, applied_control, effectiveness_rating, now)))

\* add_notes writing the notes on every assessment of the table
add_notes_every_row(ms, rs, out, notes) ==
    IF out.raised \/ notes = "" THEN out
    ELSE [rows |-> [i \in DOMAIN out.rows |->
                      assessment_save(ms, rs,
                         [out.rows[i] EXCEPT !.assessment_notes = notes]).row],
          raised |-> FALSE]

\* "Add notes if provided": the returned assessment gets its notes and is
\* saved again
add_notes(ms, rs, out, notes) ==
    IF out.raised \/ notes = "" THEN out
    ELSE [rows |-> [out.rows EXCEPT ![Len(out.rows)] =
                      assessment_save(ms, rs,
                         [out.rows[Len(out.rows)] EXCEPT !.assessment_notes = notes]).row],
          raised |-> FALSE]

\* RiskViewSet.assess_with_control once the control is found: every exception
\* becomes a 400 response
assess_with_control(rows, ms, rs, risk, applied_control, effectiveness_rating, notes, now) ==
    add_notes(ms, rs,
              assess_risk_with_control(rows, ms, rs, risk, applied_control,
                                       effectiveness_rating, now),
              notes)

(* ------------- aggregate residual risk (risk/services.py) -------------- *)
\* round(x, 2) of the fraction num/den (den > 0) of either sign, in hundredths
RoundSigned(num, den) ==
    IF num >= 0 THEN RoundHundredths(num, den)
    ELSE 0 - RoundHundredths(0 - num, den)

\* RiskAssessment.objects.filter(risk=risk, is_current=True, is_deleted=False)
current_assessments(rows, risk) ==
    {i \in DOMAIN rows : /\ rows[i].risk = risk
                         /\ rows[i].is_current
                         /\ ~rows[i].is_deleted}

\* best_assessments choosing the highest residual score
best_assessments_highest(rows, risk) ==
    {i \in current_assessments(rows, risk) :
        \A j \in current_assessments(rows, risk) :
            rows[i].residual_score >= rows[j].residual_score}

\* the rows min(assessments, key=lambda a: a.residual_score) may return: min
\* keeps the first lowest row of the queryset, which is ordered by
\* -assessment_date; rows of one date come in the order the database picks
best_assessments(rows, risk) ==
    {i \in current_assessments(rows, risk) :
        \A j \in current_assessments(rows, risk) :
            \/ rows[i].residual_score < rows[j].residual_score
            \/ /\ rows[i].residual_score = rows[j].residual_score
               /\ rows[i].assessment_date >= rows[j].assessment_date}

RECURSIVE sum_effectiveness(_, _)
sum_effectiveness(rows, S) ==
    IF S = {} THEN 0
    ELSE rows[CHOOSE i \in S : TRUE].effectiveness_rating
           + sum_effectiveness(rows, S \ {CHOOSE i \in S : TRUE})

\* round(avg_effectiveness, 2) of Avg('effectiveness_rating'), in hundredths
avg_effectiveness_of(rows, S) ==
    RoundSigned(sum_effectiveness(rows, S), Cardinality(S))

\* round(risk_reduction, 2), in hundredths of a percent
risk_reduction_of(inherent, residual) ==
    IF inherent > 0 THEN RoundSigned((inherent - residual) * 100, inherent) ELSE 0

\* RiskCalculationService.calculate_aggregate_residual_risk; best is the row
\* min() returned (unused when the risk has no current assessment)
calculate_aggregate_residual_risk(rows, rs, risk, best) ==
    IF current_assessments(rows, risk) = {}
    THEN [residual_score |-> rs[risk].inherent_risk_score,
          residual_level |-> rs[risk].inherent_risk_level,
          control_count |-> 0, avg_effectiveness |-> 0, risk_reduction |-> 0]
    ELSE [residual_score |-> rows[best].residual_score,
          residual_level |-> rows[best].residual_risk_level,
          residual_likelihood |-> rows[best].residual_likelihood,
          residual_impact |-> rows[best].residual_impact,
          control_count |-> Cardinality(current_assessments(rows, risk)),
          avg_effectiveness |->
              avg_effectiveness_of(rows, current_assessments(rows, risk)),
          risk_reduction |->
              risk_reduction_of(rs[risk].inherent_risk_score, rows[best].residual_score)]

\* the fields POST /assessments/ stores (RiskAssessmentViewSet.perform_create):
\* the submitted ones, the model defaults for the others
submitted_assessment(rs, risk, applied_control, likelihood, impact, is_current, date) ==
    [company |-> rs[risk].company, risk |-> risk,
     applied_control |-> applied_control,
     control_effectiveness |-> "effective", effectiveness_rating |-> 50,
     residual_likelihood |-> likelihood, residual_impact |-> impact,
     residual_score |-> 0, residual_risk_level |-> "medium",
     assessment_date |-> date, assessment_notes |-> "",
     is_current |-> is_current, is_deleted |-> FALSE]

\* serializer.save(): RiskAssessment.save raising rolls the request back
create_assessment(rows, saved) ==
    [rows |-> transaction_atomic(rows, Append(rows, saved.row), saved.raised),
     raised |-> saved.raised]

(* ------------------------- runs of the risk engine --------------------- *)
RiskRows == Len(matrices) + Len(risks) + Len(assessments)

\* POST /matrices/create_default/: refused when an active matrix exists
CreateDefault(company) ==
    /\ RiskRows < MaxRiskRows
    /\ matrices' = IF active_matrices(matrices, company) # {} THEN matrices
                   ELSE Append(matrices, create_default_5x5_matrix(company))
    /\ last' = [op |-> "create_default", company |-> company, matrix |-> NoMatrix,
                raised |-> active_matrices(matrices, company) # {}]
    /\ UNCHANGED <<World, today, results, tx, risks, assessments>>

\* POST /matrices/ (RiskMatrixViewSet.perform_create)
CreateMatrix(company, levels, is_active) ==
    /\ RiskRows < MaxRiskRows
    /\ matrices' = Append(matrices, submitted_matrix(company, levels, is_active))
    /\ last' = [op |-> "create_matrix", company |-> company, matrix |-> NoMatrix,
                raised |-> FALSE]
    /\ UNCHANGED <<World, today, results, tx, risks, assessments>>

\* POST /matrices/{m}/activate/
Activate(m) ==
    /\ m \in DOMAIN matrices
    /\ ~matrices[m].is_deleted
    /\ matrices' = activate(matrices, m)
    /\ last' = [op |-> "activate", company |-> matrices[m].company, matrix |-> m,
                raised |-> FALSE]
    /\ UNCHANGED <<World, today, results, tx, risks, assessments>>

\* POST /risks/ with or without a matrix of the company
CreateRisk(company, risk_matrix, likelihood, impact) ==
    /\ RiskRows < MaxRiskRows
    /\ risk_matrix # NoMatrix =>
          /\ risk_matrix \in DOMAIN matrices
          /\ matrices[risk_matrix].company = company
          /\ ~matrices[risk_matrix].is_deleted
    /\ Len(matrices_for_risk(matrices, company, risk_matrix)) - Len(matrices)
          < MaxRiskRows - RiskRows
    /\ \E out \in {perform_create(matrices, risks, company, risk_matrix,
                                  likelihood, impact)} :
          /\ matrices' = out.matrices
          /\ risks' = out.risks
          /\ last' = [op |-> "create_risk", company |-> company,
                      matrix |-> risk_matrix, raised |-> out.raised]
    /\ UNCHANGED <<World, today, results, tx, assessments>>

\* POST /risks/{risk}/assess_with_control/ with a control of the company
AssessWithControl(risk, applied_control, effectiveness_rating, notes) ==
    /\ RiskRows < MaxRiskRows
    /\ risk \in DOMAIN risks
    /\ applied_controls[applied_control].company = risks[risk].company
    /\ ~applied_controls[applied_control].is_deleted
    /\ \E out \in {assess_with_control(assessments, matrices, risks, risk,
                      applied_control, effectiveness_rating, notes, today)} :
          /\ assessments' = out.rows
          /\ last' = [op |-> "assess", company |-> risks[risk].company,
                      risk |-> risk, applied_control |-> applied_control,
                      effectiveness_rating |-> effectiveness_rating,
                      raised |-> out.raised]
    /\ UNCHANGED <<World, today, results, tx, matrices, risks>>

NextRisk ==
    \/ \E company \in Companies : CreateDefault(company)
    \/ \E is_active \in BOOLEAN : CreateMatrix("c1", 3, is_active)
    \/ \E m \in 1..MaxRiskRows : Activate(m)
    \/ \E company \in Companies, m \in 0..MaxRiskRows, li \in RiskInputs :
          CreateRisk(company, m, li[1], li[2])
    \/ \E risk \in 1..MaxRiskRows, a \in RiskControls, req \in AssessInputs :
          AssessWithControl(risk, a, req[1], req[2])

SpecRisk == Init /\ [][NextRisk]_vars

(* ------------- runs with likelihoods and impacts out of range ---------- *)
\* inherent likelihood and impact submitted for a risk: inside every matrix,
\* outside the 3x3 matrices, outside every matrix
RangeInputs == {<<3, 3>>, <<5, 4>>, <<1, 6>>}

NextRange ==
    \/ CreateMatrix("c1", 3, TRUE)
    \/ \E m \in 0..MaxRiskRows, li \in RangeInputs : CreateRisk("c1", m, li[1], li[2])
    \/ \E risk \in 1..MaxRiskRows, req \in AssessInputs :
          AssessWithControl(risk, "a1", req[1], req[2])

SpecRange == Init /\ [][NextRange]_vars

(* ------------- runs of the recommendations ----------------------------- *)
\* applied controls of company c1 in a run of SpecActions
MaxControls == 12

\* the reference_control code of the n-th control
ControlCode(n) == <<"k", n>>

\* company c1 has n applied controls numbered in the order of their
\* reference_control codes: the first e without evidence, the last o with a
\* review date that is past from day 1 on; a control of company c2 follows
\* them. The current result of c1 and f1, when there is one, was calculated
\* on day 0 when c1 had one operational control for r1 and none for r2, with
\* r1 mapped by a validated or a pending mapping.
InitActions ==
    /\ requirements = [r \in Reqs |->
          CASE r = "r1" -> Requirement("f1", TRUE, FALSE)
            [] r = "r2" -> Requirement("f1", TRUE, FALSE)
            [] OTHER -> Requirement("f2", FALSE, FALSE)]
    /\ mappings = {Mapping("r1", "k1", "validated", FALSE),
                   Mapping("r2", "k2", "validated", FALSE)}
    /\ InitAdoptions
    /\ today = 0
    /\ \E n \in 0..MaxControls : \E e \in 0..n, o \in 0..n :
          applied_controls = [a \in 1..(n + 1) |->
             IF a = n + 1
             THEN AppliedControl("c2", ControlCode(a), NoDept, "implemented", 0, FALSE, 0)
             ELSE AppliedControl("c1", ControlCode(a), NoDept, "implemented",
                                 IF a <= e THEN 0 ELSE 1, FALSE,
                                 IF a > n - o THEN 0 ELSE NoDate)]
    /\ \/ results = <<>>
       \/ \E v \in {"validated", "pending"} :
             results = calculate_framework_compliance(<<>>,
                [requirements |-> requirements,
                 mappings |-> {Mapping("r1", "k1", v, FALSE),
                               Mapping("r2", "k2", "validated", FALSE)},
                 applied_controls |-> [a \in AcIds |->
                     IF a = "a1"
                     THEN AppliedControl("c1", "k1", NoDept, "operational", 2, FALSE, NoDate)
                     ELSE AppliedControl("c2", "k2", NoDept, "implemented", 0, FALSE, NoDate)]],
                [company |-> "c1", framework |-> "f1", department |-> NoDept, now |-> 0],
                "none").rows
    /\ last = NoCall
    /\ tx = NoTx
    /\ InitNoRisk

\* the applied controls in the order of their numbers
RECURSIVE CountingOrder(_)
CountingOrder(n) == IF n = 0 THEN <<>> ELSE Append(CountingOrder(n - 1), n)

\* GET recommendations of a company and framework
PrioritizedActions(company, framework, order) ==
    /\ last' = [op |-> "prioritized_actions", company |-> company,
                framework |-> framework, now |-> today,
                result |-> current_result(results, company, framework),
                out |-> get_prioritized_actions(results, applied_controls, order,
                                                company, framework, today)]
    /\ UNCHANGED <<World, today, results, tx, RiskTables>>

NextActions ==
    \/ \E framework \in Frameworks :
          PrioritizedActions("c1", framework,
                             CountingOrder(Cardinality(DOMAIN applied_controls)))
    \/ Tick

SpecActions == InitActions /\ [][NextActions]_vars

(* ------- reads of the current result across department scopes --------- *)
\* DELETE /results/{i}/: SoftDeleteModel.delete marks the row deleted
DeleteResult(i) ==
    /\ i \in DOMAIN results
    /\ ~results[i].is_deleted
    /\ results' = [results EXCEPT ![i].is_deleted = TRUE]
    /\ last' = [op |-> "delete_result", company |-> results[i].company,
                framework |-> results[i].framework, result |-> i]
    /\ UNCHANGED <<World, today, tx, RiskTables>>

\* company c1 calculates f1 company-wide and for department d1, deletes
\* results and reads the gap analysis and the recommendations
NextRead ==
    \/ \E department \in {NoDept, "d1"} : CalculateNow("c1", "f1", department)
    \/ \E i \in 1..MaxCalcRows : DeleteResult(i)
    \/ \E framework \in Frameworks : GapAnalysis("c1", framework)
    \/ \E framework \in Frameworks : PrioritizedActions("c1", framework, AcOrder)

SpecRead == InitCalc /\ [][NextRead]_vars

(* ---------------- the requirement hierarchy of a framework ------------- *)
\* The requirement table as a sequence of rows [framework, parent]; a row's
\* position is its id and NoParent stands for parent = None.
MaxRequirements == 4
NoParent == 0

\* the while loop of Requirement.clean: follow the stored parents from
\* current, raising at the first id met twice; steps counts the iterations
RECURSIVE clean_walk(_, _, _)
clean_walk(reqs, current, visited) ==
    IF current = NoParent THEN [error |-> "none", steps |-> 0]
    ELSE IF current \in visited THEN [error |-> "circular", steps |-> 1]
    ELSE LET rest == clean_walk(reqs, reqs[current].parent, visited \cup {current})
         IN  [error |-> rest.error, steps |-> rest.steps + 1]

\* Requirement.clean starting its walk with nothing visited
clean_without_self(reqs, self, parent, framework) ==
    IF parent = NoParent THEN [error |-> "none", steps |-> 0]
    ELSE IF parent = self THEN [error |-> "own_parent", steps |-> 0]
    ELSE IF reqs[parent].framework # framework THEN [error |-> "framework", steps |-> 0]
    ELSE clean_walk(reqs, parent, {})

\* Requirement.clean of the object with id self, its parent and framework as
\* assigned in memory, against the stored table
clean(reqs, self, parent, framework) ==
    IF parent = NoParent THEN [error |-> "none", steps |-> 0]
    ELSE IF parent = self THEN [error |-> "own_parent", steps |-> 0]
    ELSE IF reqs[parent].framework # framework THEN [error |-> "framework", steps |-> 0]
    ELSE clean_walk(reqs, parent, {self})

\* the loop shared by get_ancestors, get_depth and get_full_code: it has no
\* visited set, so on a table of n rows it either ends within n steps or
\* never ends (finished = FALSE)
RECURSIVE ancestor_walk(_, _, _)
ancestor_walk(reqs, current, steps) ==
    IF current = NoParent THEN [finished |-> TRUE, ancestors |-> <<>>]
    ELSE IF steps = 0 THEN [finished |-> FALSE, ancestors |-> <<>>]
    ELSE LET rest == ancestor_walk(reqs, reqs[current].parent, steps - 1)
         IN  [finished |-> rest.finished, ancestors |-> <<current>> \o rest.ancestors]

get_ancestors(reqs, r) == ancestor_walk(reqs, reqs[r].parent, Len(reqs))

get_depth(reqs, r) == Len(get_ancestors(reqs, r).ancestors)

InitTree ==
    /\ requirements = <<>>
    /\ mappings = {}
    /\ applied_controls = <<>>
    /\ InitAdoptions
    /\ today = 0
    /\ results = <<>>
    /\ last = [op |-> "none", req |-> 0, parent |-> NoParent, framework |-> "f1",
               error |-> "none", steps |-> 0]
    /\ tx = NoTx
    /\ InitNoRisk

\* Requirement(framework=..., parent=...).full_clean(); save()
CreateRequirement(framework, parent) ==
    /\ Len(requirements) < MaxRequirements
    /\ parent \in {NoParent} \cup DOMAIN requirements
    /\ \E out \in {clean(requirements, Len(requirements) + 1, parent, framework)} :
          /\ requirements' = IF out.error = "none"
                             THEN Append(requirements, [framework |-> framework, parent |-> parent])
                             ELSE requirements
          /\ last' = [op |-> "create", req |-> Len(requirements) + 1, parent |-> parent,
                      framework |-> framework, error |-> out.error, steps |-> out.steps]
    /\ UNCHANGED <<mappings, applied_controls, adoptions, today, results, tx, RiskTables>>

\* r.parent = parent; r.full_clean(); r.save()
ReassignParent(r, parent) ==
    /\ r \in DOMAIN requirements
    /\ parent \in {NoParent} \cup DOMAIN requirements
    /\ \E out \in {clean(requirements, r, parent, requirements[r].framework)} :
          /\ requirements' = IF out.error = "none"
                             THEN [requirements EXCEPT ![r].parent = parent]
                             ELSE requirements
          /\ last' = [op |-> "reassign", req |-> r, parent |-> parent,
                      framework |-> requirements[r].framework,
                      error |-> out.error, steps |-> out.steps]
    /\ UNCHANGED <<mappings, applied_controls, adoptions, today, results, tx, RiskTables>>

NextTree ==
    \/ \E framework \in {"f1", "f2"}, parent \in 0..MaxRequirements :
          CreateRequirement(framework, parent)
    \/ \E r \in 1..MaxRequirements, parent \in 0..MaxRequirements : ReassignParent(r, parent)

SpecTree == InitTree /\ [][NextTree]_vars

(* ------- concurrent activations (PostgreSQL at READ COMMITTED) --------- *)
\* Each POST /matrices/{m}/activate/ is one transaction (ATOMIC_REQUESTS)
\* running the two statements of RiskMatrix.activate: the UPDATE of the other
\* matrices of the company and, through self.save(), the UPDATE of its own
\* row. An UPDATE takes the lock of every row it writes and keeps it until
\* the transaction ends; it waits while another open transaction holds the
\* lock. Two transactions that wait for each other are a deadlock: the
\* database aborts one of them, whose request fails and is rolled back.

\* the rows the first UPDATE of m.activate() finds
activate_targets(ms, m) ==
    {i \in DOMAIN ms : i # m /\ ms[i].company = ms[m].company /\ ~ms[i].is_deleted}

\* p can take the lock of row i: no other open transaction holds it
can_lock(t, p, i) == \A q \in Procs \ {p} : i \notin t[q].locked

\* the rows the statement p is running still has to write
wants(t, p) ==
    IF t[p].pc = "updating" THEN t[p].targets \ t[p].locked
    ELSE IF t[p].pc = "others_off" THEN {t[p].matrix}
    ELSE {}

\* p waits for a lock of q
waits_for(t, p, q) == wants(t, p) \cap t[q].locked # {}

\* commit_writes losing what the UPDATE of the other matrices wrote
commit_writes_own_row_only(ms, writes) ==
    [i \in DOMAIN ms |->
        IF i \in DOMAIN writes /\ writes[i] THEN [ms[i] EXCEPT !.is_active = TRUE]
        ELSE ms[i]]

\* COMMIT: the is_active values the transaction wrote become visible
commit_writes(ms, writes) ==
    [i \in DOMAIN ms |->
        IF i \in DOMAIN writes THEN [ms[i] EXCEPT !.is_active = writes[i]] ELSE ms[i]]

NoActivation == [pc |-> "idle", matrix |-> 0, targets |-> {}, locked |-> {},
                 writes |-> [i \in {} |-> FALSE]]

\* company c1 has three matrices and c2 one, active or not in any combination
\* (POST /matrices/ stores is_active as submitted); no request has started
InitLock ==
    /\ InitCatalogue
    /\ InitAdoptions
    /\ today = 0
    /\ results = <<>>
    /\ last = NoCall
    /\ tx = [p \in Procs |-> NoActivation]
    /\ \E x \in BOOLEAN, y \in BOOLEAN, z \in BOOLEAN :
          matrices = <<[create_default_5x5_matrix("c1") EXCEPT !.is_active = x],
                       submitted_matrix("c1", 3, y),
                       submitted_matrix("c1", 3, z),
                       submitted_matrix("c2", 3, TRUE)>>
    /\ risks = <<>>
    /\ assessments = <<>>

\* a request enters m.activate() and its first UPDATE starts
ActBegin(p, m) ==
    /\ tx[p].pc = "idle"
    /\ m \in DOMAIN matrices
    /\ ~matrices[m].is_deleted
    /\ tx' = [tx EXCEPT ![p] = [pc |-> "updating", matrix |-> m,
                                targets |-> activate_targets(matrices, m),
                                locked |-> {}, writes |-> [i \in {} |-> FALSE]]]
    /\ UNCHANGED <<World, today, results, last, RiskTables>>

\* the first UPDATE locks one of the rows it found and writes is_active=False
ActDeactivate(p, i) ==
    /\ tx[p].pc = "updating"
    /\ i \in tx[p].targets \ tx[p].locked
    /\ can_lock(tx, p, i)
    /\ tx' = [tx EXCEPT ![p].locked = @ \cup {i},
                        ![p].writes = (i :> FALSE) @@ @]
    /\ UNCHANGED <<World, today, results, last, RiskTables>>

\* the first UPDATE has written every row it found
ActOthersOff(p) ==
    /\ tx[p].pc = "updating"
    /\ tx[p].targets \subseteq tx[p].locked
    /\ tx' = [tx EXCEPT ![p].pc = "others_off"]
    /\ UNCHANGED <<World, today, results, last, RiskTables>>

\* self.is_active = True; self.save(): the UPDATE of the matrix's own row
ActSave(p) ==
    /\ tx[p].pc = "others_off"
    /\ can_lock(tx, p, tx[p].matrix)
    /\ tx' = [tx EXCEPT ![p].pc = "saved",
                        ![p].locked = @ \cup {tx[p].matrix},
                        ![p].writes = (tx[p].matrix :> TRUE) @@ @]
    /\ UNCHANGED <<World, today, results, last, RiskTables>>

\* the request ends and its transaction commits
ActCommit(p) ==
    /\ tx[p].pc = "saved"
    /\ matrices' = commit_writes(matrices, tx[p].writes)
    /\ tx' = [tx EXCEPT ![p] = [NoActivation EXCEPT !.pc = "committed",
                                                    !.matrix = tx[p].matrix]]
    /\ last' = [op |-> "activate", company |-> matrices[tx[p].matrix].company,
                matrix |-> tx[p].matrix, raised |-> FALSE]
    /\ UNCHANGED <<World, today, results, risks, assessments>>

\* p and q wait for each other: the database aborts p, the view turns the
\* error into a 400 response and the request's transaction is rolled back
ActDeadlock(p) ==
    /\ \E q \in Procs \ {p} : waits_for(tx, p, q) /\ waits_for(tx, q, p)
    /\ tx' = [tx EXCEPT ![p] = [NoActivation EXCEPT !.pc = "aborted",
                                                    !.matrix = tx[p].matrix]]
    /\ last' = [op |-> "activate", company |-> matrices[tx[p].matrix].company,
                matrix |-> tx[p].matrix, raised |-> TRUE]
    /\ UNCHANGED <<World, today, results, RiskTables>>

NextLock ==
    \/ \E p \in Procs, m \in 1..3 : ActBegin(p, m)
    \/ \E p \in Procs, i \in 1..4 : ActDeactivate(p, i)
    \/ \E p \in Procs : ActOthersOff(p)
    \/ \E p \in Procs : ActSave(p)
    \/ \E p \in Procs : ActCommit(p)
    \/ \E p \in Procs : ActDeadlock(p)

SpecLock == InitLock /\ [][NextLock]_vars

(* ------------- scores and levels of one matrix ------------------------- *)
\* risk_score_matrix tables a submitted matrix may carry: none, and one that
\* names two pairs only (keys "2,2" and "1,3")
ScoreTables == {NoScoreMatrix, (<<2, 2>> :> 7) @@ (<<1, 3>> :> 0)}

\* low, medium and high thresholds a submitted matrix may carry (the fields
\* are stored as submitted, in any order)
ThresholdInputs == {<<5, 10, 15>>, <<6, 12, 20>>, <<10, 5, 15>>, <<4, 4, 9>>}

\* likelihoods, impacts and scores the functions are applied to
ProbeLevels == 0..6
ProbeScores == (0 - 1)..26

\* one matrix: the default one, or one stored by POST /matrices/
InitMatrix ==
    /\ InitCatalogue
    /\ InitAdoptions
    /\ today = 0
    /\ results = <<>>
    /\ last = NoCall
    /\ tx = NoTx
    /\ \/ matrices = <<create_default_5x5_matrix("c1")>>
       \/ \E levels \in {3, 5}, table \in ScoreTables, th \in ThresholdInputs :
             matrices = <<[submitted_matrix("c1", levels, TRUE) EXCEPT
                             !.risk_score_matrix = table,
                             !.low_risk_threshold = th[1],
                             !.medium_risk_threshold = th[2],
                             !.high_risk_threshold = th[3]]>>
    /\ risks = <<>>
    /\ assessments = <<>>

\* matrix.calculate_risk_score(likelihood, impact)
CalculateRiskScore(m, likelihood, impact) ==
    /\ m \in DOMAIN matrices
    /\ last' = [op |-> "calculate_risk_score", matrix |-> m,
                likelihood |-> likelihood, impact |-> impact,
                raised |-> calculate_risk_score(matrices[m], likelihood, impact).raised,
                value |-> calculate_risk_score(matrices[m], likelihood, impact).value]
    /\ UNCHANGED <<World, today, results, tx, RiskTables>>

\* matrix.get_risk_level(score)
GetRiskLevel(m, score) ==
    /\ m \in DOMAIN matrices
    /\ last' = [op |-> "get_risk_level", matrix |-> m, score |-> score,
                level |-> get_risk_level(matrices[m], score)]
    /\ UNCHANGED <<World, today, results, tx, RiskTables>>

NextMatrix ==
    \/ \E likelihood \in ProbeLevels, impact \in ProbeLevels :
          CalculateRiskScore(1, likelihood, impact)
    \/ \E score \in ProbeScores : GetRiskLevel(1, score)

SpecMatrix == InitMatrix /\ [][NextMatrix]_vars

(* ------------- runs of the aggregate residual risk --------------------- *)
\* residual likelihood and impact a submitted assessment may carry
ResidualInputs == {<<3, 4>>, <<2, 3>>, <<3, 2>>, <<4, 5>>}

\* company c1 has the default matrix and one risk on it
InitAgg ==
    /\ InitCatalogue
    /\ InitAdoptions
    /\ today = 0
    /\ results = <<>>
    /\ last = NoCall
    /\ tx = NoTx
    /\ matrices = <<create_default_5x5_matrix("c1")>>
    /\ \E li \in RiskInputs :
          risks = perform_create(matrices, <<>>, "c1", 1, li[1], li[2]).risks
    /\ assessments = <<>>

\* POST /assessments/ for a risk and a control of the company
CreateAssessment(risk, applied_control, likelihood, impact, is_current) ==
    /\ RiskRows < MaxRiskRows
    /\ risk \in DOMAIN risks
    /\ applied_controls[applied_control].company = risks[risk].company
    /\ \E out \in {create_assessment(assessments,
                      assessment_save(matrices, risks,
                         submitted_assessment(risks, risk, applied_control,
                            likelihood, impact, is_current, today)))} :
          /\ assessments' = out.rows
          /\ last' = [op |-> "create_assessment", company |-> risks[risk].company,
                      risk |-> risk, applied_control |-> applied_control,
                      raised |-> out.raised]
    /\ UNCHANGED <<World, today, results, tx, matrices, risks>>

\* GET /risks/{risk}/residual_risk/
ResidualRisk(risk) ==
    /\ risk \in DOMAIN risks
    /\ \E best \in (IF current_assessments(assessments, risk) = {} THEN {0}
                     ELSE best_assessments(assessments, risk)) :
          last' = [op |-> "residual_risk", company |-> risks[risk].company,
                   risk |-> risk,
                   out |-> calculate_aggregate_residual_risk(assessments, risks,
                                                             risk, best)]
    /\ UNCHANGED <<World, today, results, tx, RiskTables>>

NextAgg ==
    \/ \E li \in ResidualInputs, is_current \in BOOLEAN :
          CreateAssessment(1, "a1", li[1], li[2], is_current)
    \/ \E req \in AssessInputs : AssessWithControl(1, "a1", req[1], req[2])
    \/ ResidualRisk(1)
    \/ Tick

SpecAgg == InitAgg /\ [][NextAgg]_vars

(* ------------- runs of assess_risk_with_control over the ratings ------- *)
\* assessments made in a run of SpecAssess
MaxAssessed == 1

\* the effectiveness ratings the field validators allow
Ratings == 0..100

\* inherent likelihood and impact of the risk that is assessed
AssessedRisks == {<<1, 1>>, <<2, 5>>, <<3, 3>>, <<5, 4>>}

InitAssess ==
    /\ InitCatalogue
    /\ InitAdoptions
    /\ today = 0
    /\ results = <<>>
    /\ last = NoCall
    /\ tx = NoTx
    /\ matrices = <<create_default_5x5_matrix("c1")>>
    /\ \E li \in AssessedRisks :
          risks = perform_create(matrices, <<>>, "c1", 1, li[1], li[2]).risks
    /\ assessments = <<>>

\* POST /risks/1/assess_with_control/ with a rating and no notes
AssessRated(effectiveness_rating) ==
    /\ Len(assessments) < MaxAssessed
    /\ AssessWithControl(1, "a1", effectiveness_rating, "")

NextAssess == \E effectiveness_rating \in Ratings : AssessRated(effectiveness_rating)

SpecAssess == InitAssess /\ [][NextAssess]_vars

(* ------------- assessments on matrices of three and five levels -------- *)
\* inherent likelihood and impact of the risk on a matrix of three levels
SmallRisks == {<<1, 1>>, <<2, 2>>, <<2, 3>>, <<3, 3>>}

\* the default matrix with one of AssessedRisks, or a 3x3 matrix stored by
\* POST /matrices/, with or without a score table, with one of SmallRisks
InitResidual ==
    /\ InitCatalogue
    /\ InitAdoptions
    /\ today = 0
    /\ results = <<>>
    /\ last = NoCall
    /\ tx = NoTx
    /\ \/ /\ matrices = <<create_default_5x5_matrix("c1")>>
          /\ \E li \in AssessedRisks :
                risks = perform_create(matrices, <<>>, "c1", 1, li[1], li[2]).risks
       \/ /\ \E table \in ScoreTables :
                matrices = <<[submitted_matrix("c1", 3, TRUE) EXCEPT
                                !.risk_score_matrix = table]>>
          /\ \E li \in SmallRisks :
                risks = perform_create(matrices, <<>>, "c1", 1, li[1], li[2]).risks
    /\ assessments = <<>>

SpecResidual == InitResidual /\ [][NextAssess]_vars

(* ------------- runs that mix calculations and assessments -------------- *)
\* company c1, with the default matrix and one risk, calculates f1 (a call
\* may fail while inserting its row), calculates all its frameworks and
\* assesses the risk against one of its controls, while days pass
NextHistory ==
    \/ \E fault \in {"none", "create"} : Calculate("c1", "f1", NoDept, fault)
    \/ CalculateAll("c1", 0)
    \/ \E req \in AssessInputs : AssessWithControl(1, "a1", req[1], req[2])
    \/ Tick

SpecHistory == InitAgg /\ [][NextHistory]_vars

(* ------------- grade and status of a stored result --------------------- *)
\* MaxValueValidator(100) of compliance_score, in hundredths
HundredPercent == 10000

\* get_compliance_grade with strict comparisons
get_compliance_grade_strict(row) ==
    IF row.compliance_score > 9500 THEN "A+"
    ELSE IF row.compliance_score > 9000 THEN "A"
    ELSE IF row.compliance_score > 8500 THEN "A-"
    ELSE IF row.compliance_score > 8000 THEN "B+"
    ELSE IF row.compliance_score > 7500 THEN "B"
    ELSE IF row.compliance_score > 7000 THEN "B-"
    ELSE IF row.compliance_score > 6500 THEN "C+"
    ELSE IF row.compliance_score > 6000 THEN "C"
    ELSE IF row.compliance_score > 5500 THEN "C-"
    ELSE IF row.compliance_score > 5000 THEN "D"
    ELSE "F"

\* ComplianceResult.get_compliance_grade: float(self.compliance_score) of a
\* two-place decimal compared with whole numbers, here in hundredths
get_compliance_grade(row) ==
    IF row.compliance_score >= 9500 THEN "A+"
    ELSE IF row.compliance_score >= 9000 THEN "A"
    ELSE IF row.compliance_score >= 8500 THEN "A-"
    ELSE IF row.compliance_score >= 8000 THEN "B+"
    ELSE IF row.compliance_score >= 7500 THEN "B"
    ELSE IF row.compliance_score >= 7000 THEN "B-"
    ELSE IF row.compliance_score >= 6500 THEN "C+"
    ELSE IF row.compliance_score >= 6000 THEN "C"
    ELSE IF row.compliance_score >= 5500 THEN "C-"
    ELSE IF row.compliance_score >= 5000 THEN "D"
    ELSE "F"

\* ComplianceResult.get_compliance_status
get_compliance_status(row) ==
    IF row.compliance_score >= 9000 THEN "compliant"
    ELSE IF row.compliance_score >= 7500 THEN "mostly_compliant"
    ELSE IF row.compliance_score >= 5000 THEN "partially_compliant"
    ELSE "non_compliant"

\* one stored result with any compliance_score the field accepts
InitGrade ==
    /\ InitCatalogue
    /\ InitAdoptions
    /\ today = 0
    /\ \E score \in 0..HundredPercent :
          results = <<[empty_result([company |-> "c1", framework |-> "f1",
                                     department |-> NoDept, now |-> 0])
                         EXCEPT !.compliance_score = score]>>
    /\ last = NoCall
    /\ tx = NoTx
    /\ InitNoRisk

\* ComplianceResultSerializer: compliance_grade and compliance_status of a row
Serialize(i) ==
    /\ last.op = "none"
    /\ last' = [op |-> "serialize", result |-> i,
                compliance_grade |-> get_compliance_grade(results[i]),
                compliance_status |-> get_compliance_status(results[i])]
    /\ UNCHANGED <<World, today, results, tx, RiskTables>>

NextGrade == \E i \in DOMAIN results : Serialize(i)

SpecGrade == InitGrade /\ [][NextGrade]_vars

(* ======================= properties of the engines ===================== *)
AllScopes == Companies \X Frameworks \X (Departments \cup {NoDept})

\* the rows of a scope in a table, and those of them that are current
RowsIn(rows, scope) == {i \in DOMAIN rows : ScopeOf(rows[i]) = scope}
CurrentIn(rows, scope) == {i \in RowsIn(rows, scope) : rows[i].is_current}
Newest(S) == CHOOSE i \in S : \A j \in S : j <= i

(* ---------------------------------------------------------------------- *)
\* C1: after any number of sequential calculations for a scope (short-circuit
\* calls included) exactly one row of the scope is current, and it is the
\* row the most recent call created.
C1_SingleCurrentIsNewest ==
    \A s \in AllScopes :
        RowsIn(results, s) # {} =>
            CurrentIn(results, s) = {Newest(RowsIn(results, s))}

\* three calculations, two of them for the scope of f2 (no mandatory
\* requirement), the newest of which is current
C1_Witness ==
    /\ Cardinality(RowsIn(results, <<"c1", "f2", NoDept>>)) >= 2
    /\ \E i \in RowsIn(results, <<"c1", "f2", NoDept>>) : ~results[i].is_current
    /\ \E i \in RowsIn(results, <<"c1", "f1", NoDept>>) : results[i].total_requirements = 2

(* ---------------------------------------------------------------------- *)
\* C2: a calculation that raises after its demotion step leaves the table as
\* it was: no new row, and the row that was current is still current.
C2_RaiseRollsBack ==
    [][(last'.op = "calculate" /\ last'.raised) => results' = results]_vars

\* a call raised while a current row of its scope existed, and that row is
\* still current
C2_Witness ==
    /\ last.op = "calculate"
    /\ last.raised
    /\ last.fault \in {"resolve", "score", "create"}
    /\ CurrentIn(results, ScopeOf(last)) # {}

(* ---------------------------------------------------------------------- *)
\* the controls of a company that a requirement's validated mappings reach
\* within a scope
MatchedControls(requirement, scope) ==
    {a \in AcIds :
        /\ ~applied_controls[a].is_deleted
        /\ applied_controls[a].company = scope[1]
        /\ scope[3] # NoDept => applied_controls[a].department \in {scope[3], NoDept}
        /\ \E m \in mappings :
              /\ m.requirement = requirement
              /\ m.reference_control = applied_controls[a].reference_control
              /\ m.validation_status = "validated"
              /\ ~m.is_deleted}

Mandatory(framework) ==
    {r \in Reqs : /\ requirements[r].framework = framework
                  /\ requirements[r].is_mandatory
                  /\ ~requirements[r].is_deleted}

Addressed(scope) == {r \in Mandatory(scope[2]) : MatchedControls(r, scope) # {}}

\* what a snapshot reports, its identity, date and is_current flag left out
Metrics(row) ==
    [coverage_percentage |-> row.coverage_percentage,
     compliance_score |-> row.compliance_score,
     total_requirements |-> row.total_requirements,
     requirements_addressed |-> row.requirements_addressed,
     requirements_compliant |-> row.requirements_compliant,
     requirements_partial |-> row.requirements_partial,
     requirements_non_compliant |-> row.requirements_non_compliant,
     high_risk_gaps |-> row.high_risk_gaps,
     medium_risk_gaps |-> row.medium_risk_gaps,
     low_risk_gaps |-> row.low_risk_gaps,
     details |-> [r \in DOMAIN row.requirement_details |->
                    <<row.requirement_details[r].status,
                      row.requirement_details[r].score>>]]

\* the applied controls whose review is overdue on a day
OverdueOn(day) == {a \in AcIds : is_overdue_for_review(applied_controls[a], day)}

\* C6 as claimed: two runs of a scope over the same requirements, mappings,
\* applied controls and evidence counts produce the same metrics.
C6_SameInputsSameSnapshot ==
    \A i, j \in DOMAIN results :
        ScopeOf(results[i]) = ScopeOf(results[j]) =>
            Metrics(results[i]) = Metrics(results[j])

\* C6 amended: two runs of a scope over the same requirements, mappings,
\* applied controls and evidence counts, made on days on which the same
\* applied controls are overdue for review, produce the same metrics.
C6_SameInputsSameDaySameSnapshot ==
    \A i, j \in DOMAIN results :
        /\ ScopeOf(results[i]) = ScopeOf(results[j])
        /\ OverdueOn(results[i].calculation_date) = OverdueOn(results[j].calculation_date)
        => Metrics(results[i]) = Metrics(results[j])

\* two runs of the company-wide scope of f1 on different days, the second
\* retiring the first, with a requirement addressed
C6_Witness ==
    \E i, j \in DOMAIN results :
        /\ i < j
        /\ ScopeOf(results[i]) = <<"c1", "f1", NoDept>>
        /\ ScopeOf(results[j]) = <<"c1", "f1", NoDept>>
        /\ results[i].calculation_date < results[j].calculation_date
        /\ OverdueOn(results[i].calculation_date) = OverdueOn(results[j].calculation_date)
        /\ results[j].requirements_addressed >= 1
        /\ ~results[i].is_current /\ results[j].is_current

(* ---------------------------------------------------------------------- *)
\* C7: when calculate_all fails on one adopted framework, the results created
\* for the frameworks processed before it stay committed and current, the
\* rows of the failing framework are as they were before the call, and the
\* failure leaves no scope with zero or two current results.
C7_FailureKeepsEarlierResults ==
    [][(last'.op = "calculate_all" /\ last'.raised) =>
         LET fws == adopted_frameworks(adoptions, last'.company)
             k == last'.done
             failing == <<last'.company, fws[k + 1], NoDept>>
         IN  /\ Len(results') = Len(results) + k
             /\ \A j \in 1..k :
                   /\ ScopeOf(results'[Len(results) + j]) = <<last'.company, fws[j], NoDept>>
                   /\ CurrentIn(results', <<last'.company, fws[j], NoDept>>)
                        = {Len(results) + j}
             /\ \A i \in DOMAIN results :
                   ScopeOf(results[i]) = failing => results'[i] = results[i]
             /\ RowsIn(results', failing) = RowsIn(results, failing)
             /\ \A s \in AllScopes :
                   Cardinality(CurrentIn(results, s)) = 1 =>
                       Cardinality(CurrentIn(results', s)) = 1
    ]_vars

\* calculate_all for c1 created the result of f1 and then failed on f2, whose
\* earlier result is still the current one
C7_Witness ==
    /\ last.op = "calculate_all"
    /\ last.raised
    /\ last.company = "c1"
    /\ last.done = 1
    /\ Len(results) >= 2
    /\ ScopeOf(results[Len(results)]) = <<"c1", "f1", NoDept>>
    /\ results[Len(results)].is_current
    /\ \E i \in 1..(Len(results) - 1) :
          ScopeOf(results[i]) = <<"c1", "f2", NoDept>> /\ results[i].is_current

(* ---------------------------------------------------------------------- *)
\* C8: a calculation for one scope leaves every row of every other scope
\* unchanged, is_current included; a scope differs when the company, the
\* framework or the department differs, department null being a scope of its own.
C8_OtherScopesUntouched ==
    [][last'.op = "calculate" =>
         /\ Len(results') >= Len(results)
         /\ \A i \in DOMAIN results :
               ScopeOf(results[i]) # ScopeOf(last') => results'[i] = results[i]
         /\ \A i \in DOMAIN results' :
               i > Len(results) => ScopeOf(results'[i]) = ScopeOf(last')
    ]_vars

\* a company-wide calculation of f1 for c1 succeeded while the department
\* scope d1 of the same framework held a current result, which still is current
C8_Witness ==
    /\ last.op = "calculate"
    /\ ~last.raised
    /\ ScopeOf(last) = <<"c1", "f1", NoDept>>
    /\ Len(results) >= 3
    /\ ScopeOf(results[Len(results)]) = <<"c1", "f1", NoDept>>
    /\ \E i, j \in 1..(Len(results) - 1) :
          /\ ScopeOf(results[i]) = <<"c1", "f1", "d1">> /\ results[i].is_current
          /\ ScopeOf(results[j]) = <<"c1", "f1", NoDept>> /\ ~results[j].is_current

(* ---------------------------------------------------------------------- *)
\* C9: a calculation never fails on an empty denominator.  No call without an
\* injected fault raises; a framework without mandatory requirements gives a
\* current result with coverage 0, score 0 and total_requirements 0; a
\* framework none of whose mandatory requirements has a mapped and applied
\* control gives compliance_score 0 and coverage_percentage 0.
C9_NoEmptyDenominatorFailure ==
    /\ last.op = "calculate" =>
          /\ ~last.raised
          /\ Len(results) >= 1
          /\ ScopeOf(results[Len(results)]) = ScopeOf(last)
          /\ results[Len(results)].is_current
    /\ \A i \in DOMAIN results :
          LET row == results[i]
          IN  /\ Mandatory(row.framework) = {} =>
                    /\ row.total_requirements = 0
                    /\ row.coverage_percentage = 0
                    /\ row.compliance_score = 0
              /\ (Mandatory(row.framework) # {} /\ Addressed(ScopeOf(row)) = {}) =>
                    /\ row.total_requirements = Cardinality(Mandatory(row.framework))
                    /\ row.coverage_percentage = 0
                    /\ row.compliance_score = 0

\* the last call computed a framework with mandatory requirements none of
\* which is addressed, after a call for a framework without any
C9_Witness ==
    /\ last.op = "calculate"
    /\ Len(results) = 2
    /\ Mandatory(results[1].framework) = {}
    /\ results[1].total_requirements = 0
    /\ Mandatory(results[2].framework) # {}
    /\ Addressed(ScopeOf(results[2])) = {}
    /\ results[2].total_requirements >= 1
    /\ results[2].is_current

(* ---------------------------------------------------------------------- *)
RECURSIVE SumOfScores(_, _)
SumOfScores(S, day) ==
    IF S = {} THEN 0
    ELSE LET a == CHOOSE x \in S : TRUE
         IN  calculate_compliance_score(applied_controls[a], day)
               + SumOfScores(S \ {a}, day)

\* the sum over a set of requirements of the mean score of their matched
\* controls, as a fraction <<numerator, denominator>>
RECURSIVE SumOfMeans(_, _, _)
SumOfMeans(R, scope, day) ==
    IF R = {} THEN <<0, 1>>
    ELSE LET r == CHOOSE x \in R : TRUE
             rest == SumOfMeans(R \ {r}, scope, day)
             n == Cardinality(MatchedControls(r, scope))
         IN  <<rest[1] * n + SumOfScores(MatchedControls(r, scope), day) * rest[2],
               rest[2] * n>>

\* C10: for a framework with a mandatory requirement the result has
\* requirements_addressed = the number of mandatory requirements with a
\* validated mapping and an applied control, coverage_percentage =
\* addressed / total x 100 and compliance_score = (sum of the addressed
\* requirements' mean control scores) / (100 x addressed) x 100, whatever
\* the requirements' own scores are.
C10_CoverageAndScoreFormulas ==
    \A i \in DOMAIN results :
        LET row == results[i]
            scope == ScopeOf(row)
            total == Cardinality(Mandatory(row.framework))
            addressed == Cardinality(Addressed(scope))
            means == SumOfMeans(Addressed(scope), scope, row.calculation_date)
        IN  total >= 1 =>
              /\ row.total_requirements = total
              /\ row.requirements_addressed = addressed
              /\ row.coverage_percentage = RoundHundredths(addressed * 100, total)
              /\ addressed >= 1 =>
                    row.compliance_score =
                        RoundHundredths(means[1] * 100, means[2] * 100 * addressed)

\* a result with two addressed requirements, one of which scores 0 while the
\* overall score is positive
C10_Witness ==
    \E i \in DOMAIN results :
        /\ results[i].requirements_addressed = 2
        /\ results[i].compliance_score > 0
        /\ \E r \in DOMAIN results[i].requirement_details :
              /\ results[i].requirement_details[r].status = "non_compliant"
              /\ results[i].requirement_details[r].score = 0

(* ---------------------------------------------------------------------- *)
\* C3: two concurrent calculations of one scope are serialized: at no time do
\* two committed rows of a scope have is_current=True, and a current row is
\* never older than another row of its scope (the call that committed last
\* leaves its row as the only current one).
C3_ConcurrentCallsSerialized ==
    \A s \in AllScopes :
        /\ Cardinality(CurrentIn(results, s)) <= 1
        /\ \A i \in CurrentIn(results, s) : \A j \in RowsIn(results, s) : j <= i

(* ---------------------------------------------------------------------- *)
\* the assessments of a risk in a table, and those of them that are current
AssessmentsOf(rows, risk) == {i \in DOMAIN rows : rows[i].risk = risk}
CurrentOf(rows, risk) == {i \in AssessmentsOf(rows, risk) : rows[i].is_current}

\* C4: when assess_risk_with_control returns, the assessment it created is
\* the only current assessment of its risk: every assessment of the risk that
\* was there before is as it was except that it is not current, whichever
\* applied control it was made against, and the assessments of every other
\* risk are unchanged.
C4_NewAssessmentOnlyCurrent ==
    [][(last'.op = "assess" /\ ~last'.raised) =>
         /\ Len(assessments') = Len(assessments) + 1
         /\ assessments'[Len(assessments')].risk = last'.risk
         /\ assessments'[Len(assessments')].applied_control = last'.applied_control
         /\ CurrentOf(assessments', last'.risk) = {Len(assessments')}
         /\ \A i \in DOMAIN assessments :
               IF assessments[i].risk = last'.risk
               THEN assessments'[i] = [assessments[i] EXCEPT !.is_current = FALSE]
               ELSE assessments'[i] = assessments[i]
    ]_vars

\* an assessment against one control retired the assessment of the same risk
\* that had been made against another control
C4_Witness ==
    /\ last.op = "assess"
    /\ ~last.raised
    /\ Len(assessments) >= 2
    /\ CurrentOf(assessments, last.risk) = {Len(assessments)}
    /\ \E i \in AssessmentsOf(assessments, last.risk) :
          /\ i = Len(assessments) - 1
          /\ assessments[i].applied_control # last.applied_control
          /\ ~assessments[i].is_current

(* ---------------------------------------------------------------------- *)
\* the non-deleted matrices of a company
MatricesOf(company) ==
    {i \in DOMAIN matrices : matrices[i].company = company /\ ~matrices[i].is_deleted}

\* C5: in every state reached by creating matrices (default constructor,
\* create endpoint, implicit creation on risk create) and activating them,
\* each company that has a matrix has exactly one active matrix; and when
\* activate() has returned for m, m is active and every other non-deleted
\* matrix of m's company is inactive.
C5_ExactlyOneActiveMatrix ==
    /\ \A company \in Companies :
          MatricesOf(company) # {} =>
              Cardinality(active_matrices(matrices, company)) = 1
    /\ last.op = "activate" =>
          active_matrices(matrices, last.company) = {last.matrix}

\* the part of C5 that is about activate() alone
C5_ActivateLeavesOneActive ==
    [][last'.op = "activate" =>
         /\ active_matrices(matrices', last'.company) = {last'.matrix}
         /\ \A i \in DOMAIN matrices :
               matrices[i].company # last'.company => matrices'[i] = matrices[i]
    ]_vars

\* activate() ran for a company that had two active matrices
C5_ActivateWitness ==
    /\ last.op = "activate"
    /\ Cardinality(MatricesOf(last.company)) >= 2
    /\ \E c \in Companies \ {last.company} : active_matrices(matrices, c) # {}

(* ---------------------------------------------------------------------- *)
\* a requirement has a validated, non-deleted mapping to a reference control
HasValidatedMapping(requirement) ==
    \E m \in mappings : /\ m.requirement = requirement
                        /\ m.validation_status = "validated"
                        /\ ~m.is_deleted

\* C11: every mandatory requirement of a result's framework has one entry in
\* requirement_details, given by exactly one rule: without a validated mapping
\* it is no_controls with score 0; with mappings but without an applied
\* control of the company in scope it is not_implemented with score 0;
\* otherwise its score is the mean of the scores of the matched controls and
\* its status is compliant from 85, partial from 50 and non_compliant below.
C11_RequirementClassification ==
    \A i \in DOMAIN results :
        LET row == results[i]
            scope == ScopeOf(row)
        IN  /\ DOMAIN row.requirement_details = Mandatory(row.framework)
            /\ \A r \in Mandatory(row.framework) :
                  LET d == row.requirement_details[r]
                      matched == MatchedControls(r, scope)
                      total == SumOfScores(matched, row.calculation_date)
                      n == Cardinality(matched)
                  IN  IF ~HasValidatedMapping(r)
                        THEN d.status = "no_controls" /\ d.score = 0
                      ELSE IF matched = {}
                        THEN d.status = "not_implemented" /\ d.score = 0
                      ELSE /\ d.score = RoundHundredths(total, n)
                           /\ d.status = IF total >= 85 * n THEN "compliant"
                                         ELSE IF total >= 50 * n THEN "partial"
                                         ELSE "non_compliant"

\* a company-wide result with a requirement at exactly 85 (compliant) and one
\* at exactly 50 (partial), and a department result where the latter
\* requirement has mappings but no applied control in scope
C11_Witness ==
    \E i, j \in DOMAIN results :
        /\ ScopeOf(results[i]) = <<"c1", "f1", NoDept>>
        /\ DOMAIN results[i].requirement_details = {"r1", "r2"}
        /\ results[i].requirement_details["r1"].status = "compliant"
        /\ results[i].requirement_details["r1"].score = 8500
        /\ Cardinality(MatchedControls("r1", ScopeOf(results[i]))) = 2
        /\ results[i].requirement_details["r2"].status = "partial"
        /\ results[i].requirement_details["r2"].score = 5000
        /\ ScopeOf(results[j]) = <<"c1", "f1", "d1">>
        /\ "r2" \in DOMAIN results[j].requirement_details
        /\ results[j].requirement_details["r2"].status = "not_implemented"

(* ---------------------------------------------------------------------- *)
\* the base score of each status
BaseScore ==
    ("not_started" :> 0) @@ ("in_progress" :> 25) @@ ("implemented" :> 50) @@
    ("testing" :> 60) @@ ("operational" :> 85) @@ ("needs_improvement" :> 40) @@
    ("non_compliant" :> 0)

\* C12: the score a control's calculate_compliance_score returns is its
\* status base plus 5 per linked evidence item, capped at 100, then less 20
\* floored at 0 when the control has deficiencies, then less 10 floored at 0
\* when its review is overdue.
C12_ScoreByStatusEvidencePenalties ==
    last.op = "score" =>
        LET bonus == BaseScore[last.status] + 5 * last.evidence_count
            capped == IF bonus > 100 THEN 100 ELSE bonus
            deficient == IF last.has_deficiencies
                         THEN (IF capped >= 20 THEN capped - 20 ELSE 0) ELSE capped
            overdue == IF last.overdue
                       THEN (IF deficient >= 10 THEN deficient - 10 ELSE 0) ELSE deficient
        IN  last.score = overdue

\* an operational control with evidence beyond the cap, deficiencies and an
\* overdue review was scored 100 - 20 - 10
C12_Witness ==
    /\ last.op = "score"
    /\ last.status = "operational"
    /\ last.evidence_count >= 4
    /\ last.has_deficiencies
    /\ last.overdue
    /\ last.score = 70

(* ---------------------------------------------------------------------- *)
\* C13: linking one more evidence item to a control, its status, deficiency
\* flag and overdue state unchanged, never lowers its compliance score, and
\* the score is at most 100 whatever the number of links.
C13_EvidenceNeverLowersScore ==
    [][(last'.op = "link_evidence" /\ applied_controls' # applied_controls) =>
         /\ today' = today
         /\ applied_controls'[last'.control].evidence_count
               = applied_controls[last'.control].evidence_count + 1
         /\ calculate_compliance_score(applied_controls'[last'.control], today')
               >= calculate_compliance_score(applied_controls[last'.control], today)
         /\ calculate_compliance_score(applied_controls'[last'.control], today') <= 100
    ]_vars

\* evidence was linked to a control that had already reached the cap
C13_Witness ==
    /\ last.op = "link_evidence"
    /\ applied_controls[last.control].status = "in_progress"
    /\ ~applied_controls[last.control].has_deficiencies
    /\ applied_controls[last.control].evidence_count >= 16
    /\ calculate_compliance_score(applied_controls[last.control], today) = 100

(* ---------------------------------------------------------------------- *)
\* the requirements a result stores with one of the given statuses
WithStatus(row, statuses) ==
    {r \in DOMAIN row.requirement_details : row.requirement_details[r].status \in statuses}

\* C14: the gap counters of a result follow from its stored requirement
\* statuses alone: high_risk_gaps counts no_controls, not_implemented and
\* non_compliant, medium_risk_gaps counts partial, low_risk_gaps is 0, and
\* compliant requirements are counted nowhere.
C14_GapCountersFromStatuses ==
    \A i \in DOMAIN results :
        /\ results[i].high_risk_gaps =
              Cardinality(WithStatus(results[i],
                  {"no_controls", "not_implemented", "non_compliant"}))
        /\ results[i].medium_risk_gaps = Cardinality(WithStatus(results[i], {"partial"}))
        /\ results[i].low_risk_gaps = 0
        /\ results[i].high_risk_gaps + results[i].medium_risk_gaps
              + Cardinality(WithStatus(results[i], {"compliant"}))
              = Cardinality(DOMAIN results[i].requirement_details)

\* a result with a compliant and a non_compliant requirement (one high gap)
\* and an earlier one with a compliant and a partial requirement (one medium)
C14_Witness ==
    \E i, j \in DOMAIN results :
        /\ WithStatus(results[i], {"compliant"}) # {}
        /\ WithStatus(results[i], {"non_compliant"}) # {}
        /\ results[i].high_risk_gaps = 1
        /\ results[i].medium_risk_gaps = 0
        /\ WithStatus(results[j], {"compliant"}) # {}
        /\ WithStatus(results[j], {"partial"}) # {}
        /\ results[j].high_risk_gaps = 0
        /\ results[j].medium_risk_gaps = 1

(* ---------------------------------------------------------------------- *)
\* C15: the gap list get_gap_analysis rebuilds from the requirement_details
\* of the result it reads agrees with the counters stored on that result:
\* by_severity.high, medium and low equal high_risk_gaps, medium_risk_gaps
\* and low_risk_gaps, and total equals get_gap_count().
C15_GapAnalysisAgreesWithCounters ==
    /\ \A i \in DOMAIN results :
          /\ gap_report(gap_list(results[i].requirement_details)).by_severity
                = [high |-> results[i].high_risk_gaps,
                   medium |-> results[i].medium_risk_gaps,
                   low |-> results[i].low_risk_gaps]
          /\ gap_report(gap_list(results[i].requirement_details)).total
                = get_gap_count(results[i])
    /\ (last.op = "gap_analysis" /\ last.result # 0) =>
          /\ last.out.by_severity.high = results[last.result].high_risk_gaps
          /\ last.out.by_severity.medium = results[last.result].medium_risk_gaps
          /\ last.out.by_severity.low = results[last.result].low_risk_gaps
          /\ last.out.total = get_gap_count(results[last.result])

\* a gap analysis of a result with one high gap and one medium gap
C15_Witness ==
    /\ last.op = "gap_analysis"
    /\ last.result # 0
    /\ last.out.total = 2
    /\ results[last.result].high_risk_gaps = 1
    /\ results[last.result].medium_risk_gaps = 1
    /\ \E k \in DOMAIN last.out.gaps : last.out.gaps[k].status = "partial"

(* ---------------------------------------------------------------------- *)
\* the grade bands and the status bands as <<name, lowest, highest>>, in
\* hundredths of a point
GradeBands ==
    {<<"A+", 9500, 10000>>, <<"A", 9000, 9499>>, <<"A-", 8500, 8999>>,
     <<"B+", 8000, 8499>>, <<"B", 7500, 7999>>, <<"B-", 7000, 7499>>,
     <<"C+", 6500, 6999>>, <<"C", 6000, 6499>>, <<"C-", 5500, 5999>>,
     <<"D", 5000, 5499>>, <<"F", 0, 4999>>}

StatusBands ==
    {<<"compliant", 9000, 10000>>, <<"mostly_compliant", 7500, 8999>>,
     <<"partially_compliant", 5000, 7499>>, <<"non_compliant", 0, 4999>>}

BandsOf(bands, score) == {b \in bands : b[2] <= score /\ score <= b[3]}

\* C16: every compliance_score in [0,100] falls in exactly one grade band
\* and exactly one status band, the grade and status reported are those of
\* these bands, and each boundary value (95, 90, ..., 50) belongs to the
\* higher band.
C16_GradeAndStatusBands ==
    /\ \A i \in DOMAIN results :
          /\ Cardinality(BandsOf(GradeBands, results[i].compliance_score)) = 1
          /\ Cardinality(BandsOf(StatusBands, results[i].compliance_score)) = 1
    /\ last.op = "serialize" =>
          /\ BandsOf(GradeBands, results[last.result].compliance_score)
                = {b \in GradeBands : b[1] = last.compliance_grade}
          /\ BandsOf(StatusBands, results[last.result].compliance_score)
                = {b \in StatusBands : b[1] = last.compliance_status}

\* a score on the boundary 90.00 is graded A and reported compliant
C16_Witness ==
    /\ last.op = "serialize"
    /\ results[last.result].compliance_score = 9000
    /\ last.compliance_grade = "A"
    /\ last.compliance_status = "compliant"

(* ---------------------------------------------------------------------- *)
\* C17: for a risk with at least one current, non-deleted assessment,
\* calculate_aggregate_residual_risk reports the residual score, level,
\* likelihood and impact of one assessment whose residual score is the
\* lowest among the current assessments of the risk, and control_count is
\* the number of those current assessments.
C17_AggregateReportsLowestResidual ==
    (last.op = "residual_risk" /\ current_assessments(assessments, last.risk) # {}) =>
        /\ \E i \in current_assessments(assessments, last.risk) :
              /\ \A j \in current_assessments(assessments, last.risk) :
                    assessments[i].residual_score <= assessments[j].residual_score
              /\ last.out.residual_score = assessments[i].residual_score
              /\ last.out.residual_level = assessments[i].residual_risk_level
              /\ last.out.residual_likelihood = assessments[i].residual_likelihood
              /\ last.out.residual_impact = assessments[i].residual_impact
        /\ last.out.control_count
              = Cardinality(current_assessments(assessments, last.risk))

\* three current assessments with residual scores 12, 6 and 20: the
\* aggregate reports 6 with its level, likelihood 2 and impact 3, and counts 3
C17_Witness ==
    /\ last.op = "residual_risk"
    /\ {assessments[i].residual_score :
           i \in current_assessments(assessments, last.risk)} = {12, 6, 20}
    /\ last.out.residual_score = 6
    /\ last.out.residual_level = "medium"
    /\ last.out.residual_likelihood = 2
    /\ last.out.residual_impact = 3
    /\ last.out.control_count = 3

(* ---------------------------------------------------------------------- *)
\* C18: for every risk with at least one current assessment, the aggregate
\* reports risk_reduction = (inherent score - chosen residual score) /
\* inherent score * 100 clamped to the range 0..100 (here in hundredths of
\* a percent, 0..10000).
C18_RiskReductionClamped ==
    (last.op = "residual_risk" /\ current_assessments(assessments, last.risk) # {}) =>
        last.out.risk_reduction
           = Max(0, Min(HundredPercent,
                 risk_reduction_of(risks[last.risk].inherent_risk_score,
                                   last.out.residual_score)))

(* ---------------------------------------------------------------------- *)
\* C19: for every effectiveness_rating in 0..100, assess_risk_with_control
\* uses reduction = floor(rating * 2 / 100), which is 0, 1 or 2, and stores
\* residual_likelihood = max(1, inherent_likelihood - reduction) and
\* residual_impact = max(1, inherent_impact - reduction); the residual score
\* and level stored are those the risk's matrix gives for that pair.
C19_ResidualFromRating ==
    (last.op = "assess" /\ ~last.raised /\ last.effectiveness_rating \in 0..100) =>
        \E reduction \in {0, 1, 2} :
          /\ reduction * 100 <= last.effectiveness_rating * 2
          /\ last.effectiveness_rating * 2 < (reduction + 1) * 100
          /\ assessments[Len(assessments)].risk = last.risk
          /\ assessments[Len(assessments)].effectiveness_rating
                = last.effectiveness_rating
          /\ assessments[Len(assessments)].residual_likelihood
                = Max(1, risks[last.risk].inherent_likelihood - reduction)
          /\ assessments[Len(assessments)].residual_impact
                = Max(1, risks[last.risk].inherent_impact - reduction)
          /\ assessments[Len(assessments)].residual_score
                = matrices[risks[last.risk].risk_matrix].risk_score_matrix[
                     <<Max(1, risks[last.risk].inherent_likelihood - reduction),
                       Max(1, risks[last.risk].inherent_impact - reduction)>>]
          /\ assessments[Len(assessments)].residual_risk_level
                = get_risk_level(matrices[risks[last.risk].risk_matrix],
                                 assessments[Len(assessments)].residual_score)

\* rating 50 on a risk of likelihood 2 and impact 5: reduction 1, residual
\* pair (1, 4), score 4, level low
C19_Witness ==
    /\ last.op = "assess"
    /\ ~last.raised
    /\ last.effectiveness_rating = 50
    /\ risks[last.risk].inherent_likelihood = 2
    /\ risks[last.risk].inherent_impact = 5
    /\ assessments[Len(assessments)].residual_likelihood = 1
    /\ assessments[Len(assessments)].residual_impact = 4
    /\ assessments[Len(assessments)].residual_score = 4
    /\ assessments[Len(assessments)].residual_risk_level = "low"

(* ---------------------------------------------------------------------- *)
\* C20: calculate_risk_score rejects every likelihood outside
\* 1..likelihood_levels and every impact outside 1..impact_levels and accepts
\* the pairs inside; a risk creation or an assessment that hits the error
\* stores nothing and leaves the matrices, risks and assessments as they
\* were, so no stored risk or assessment carries a pair outside its matrix.
C20_OutOfRangeStoresNothing ==
    [][/\ \A m \in DOMAIN matrices' : \A likelihood \in 0..6, impact \in 0..6 :
             calculate_risk_score(matrices'[m], likelihood, impact).raised
                <=> ~(/\ likelihood \in 1..matrices'[m].likelihood_levels
                      /\ impact \in 1..matrices'[m].impact_levels)
       /\ (last'.op \in {"create_risk", "assess"} /\ last'.raised) =>
             /\ matrices' = matrices
             /\ risks' = risks
             /\ assessments' = assessments
       /\ \A r \in DOMAIN risks' :
             /\ risks'[r].inherent_likelihood
                   \in 1..matrices'[risks'[r].risk_matrix].likelihood_levels
             /\ risks'[r].inherent_impact
                   \in 1..matrices'[risks'[r].risk_matrix].impact_levels
       /\ \A a \in DOMAIN assessments' :
             /\ assessments'[a].residual_likelihood
                   \in 1..matrices'[risks'[assessments'[a].risk].risk_matrix].likelihood_levels
             /\ assessments'[a].residual_impact
                   \in 1..matrices'[risks'[assessments'[a].risk].risk_matrix].impact_levels
    ]_vars

\* a risk submitted without a matrix and with impact 6 to a company without
\* matrices: the default matrix created for it is gone with the risk
C20_Witness ==
    /\ last.op = "create_risk"
    /\ last.raised
    /\ last.matrix = NoMatrix
    /\ matrices = <<>>
    /\ risks = <<>>

(* ---------------------------------------------------------------------- *)
\* C21: for every in-range (likelihood, impact) pair calculate_risk_score
\* returns the value stored under the pair's key in risk_score_matrix when
\* the key is present and likelihood * impact when it is absent; on the
\* default 5x5 matrix the result is likelihood * impact for all 25 pairs.
C21_ScoreFromTableOrProduct ==
    /\ (/\ last.op = "calculate_risk_score"
        /\ last.likelihood \in 1..matrices[last.matrix].likelihood_levels
        /\ last.impact \in 1..matrices[last.matrix].impact_levels) =>
          /\ ~last.raised
          /\ <<last.likelihood, last.impact>>
                 \in DOMAIN matrices[last.matrix].risk_score_matrix
               => last.value = matrices[last.matrix].risk_score_matrix[
                                  <<last.likelihood, last.impact>>]
          /\ <<last.likelihood, last.impact>>
                 \notin DOMAIN matrices[last.matrix].risk_score_matrix
               => last.value = last.likelihood * last.impact
    /\ \A m \in DOMAIN matrices :
          matrices[m] = create_default_5x5_matrix(matrices[m].company) =>
             \A likelihood \in 1..5, impact \in 1..5 :
                calculate_risk_score(matrices[m], likelihood, impact)
                   = [raised |-> FALSE, value |-> likelihood * impact]

\* pair (2, 2) of a matrix whose table stores 7 for it
C21_Witness ==
    /\ last.op = "calculate_risk_score"
    /\ last.likelihood = 2
    /\ last.impact = 2
    /\ <<2, 2>> \in DOMAIN matrices[last.matrix].risk_score_matrix
    /\ matrices[last.matrix].risk_score_matrix[<<2, 2>>] = 7
    /\ ~last.raised
    /\ last.value = 7

(* ---------------------------------------------------------------------- *)
\* the levels in rising order
LevelRank(level) ==
    CASE level = "low" -> 0 [] level = "medium" -> 1
      [] level = "high" -> 2 [] level = "critical" -> 3 [] OTHER -> 0 - 1

\* C22: get_risk_level gives every integer score exactly one of low, medium,
\* high, critical: low under the low threshold, else medium under the medium
\* threshold, else high under the high threshold, else critical; a score
\* equal to a threshold is in the level above it, and the level does not go
\* down when the score goes up.
C22_LevelByThresholds ==
    last.op = "get_risk_level" =>
        /\ last.level \in {"low", "medium", "high", "critical"}
        /\ last.level = "low" <=> last.score < matrices[last.matrix].low_risk_threshold
        /\ last.level = "medium" <=>
              /\ last.score >= matrices[last.matrix].low_risk_threshold
              /\ last.score < matrices[last.matrix].medium_risk_threshold
        /\ last.level = "high" <=>
              /\ last.score >= matrices[last.matrix].low_risk_threshold
              /\ last.score >= matrices[last.matrix].medium_risk_threshold
              /\ last.score < matrices[last.matrix].high_risk_threshold
        /\ last.level = "critical" <=>
              /\ last.score >= matrices[last.matrix].low_risk_threshold
              /\ last.score >= matrices[last.matrix].medium_risk_threshold
              /\ last.score >= matrices[last.matrix].high_risk_threshold
        /\ last.score = matrices[last.matrix].low_risk_threshold
              => LevelRank(last.level) >= 1
        /\ (/\ last.score = matrices[last.matrix].medium_risk_threshold
            /\ last.score >= matrices[last.matrix].low_risk_threshold)
              => LevelRank(last.level) >= 2
        /\ (/\ last.score = matrices[last.matrix].high_risk_threshold
            /\ last.score >= matrices[last.matrix].low_risk_threshold
            /\ last.score >= matrices[last.matrix].medium_risk_threshold)
              => last.level = "critical"
        /\ \A lower \in ProbeScores :
              lower <= last.score =>
                 LevelRank(get_risk_level(matrices[last.matrix], lower))
                    <= LevelRank(last.level)

\* score 12 on the default matrix, whose medium threshold is 12: high
C22_Witness ==
    /\ last.op = "get_risk_level"
    /\ last.score = 12
    /\ matrices[last.matrix].medium_risk_threshold = 12
    /\ matrices[last.matrix].low_risk_threshold = 6
    /\ last.level = "high"

(* ---------------------------------------------------------------------- *)
\* the applied controls of a company without evidence, and those whose
\* review date is before a day
ZeroEvidence(company) ==
    {a \in DOMAIN applied_controls : /\ applied_controls[a].company = company
                                     /\ ~applied_controls[a].is_deleted
                                     /\ applied_controls[a].evidence_count = 0}

ReviewBefore(company, now) ==
    {a \in DOMAIN applied_controls : /\ applied_controls[a].company = company
                                     /\ ~applied_controls[a].is_deleted
                                     /\ applied_controls[a].next_review_date # NoDate
                                     /\ applied_controls[a].next_review_date < now}

\* the requirements of a result that have no control at all
Uncontrolled(row) ==
    {r \in DOMAIN row.requirement_details :
        row.requirement_details[r].status \in {"no_controls", "not_implemented"}}

\* the positions and the targets of the actions of one priority
PositionsOf(actions, priority) ==
    {k \in DOMAIN actions : actions[k].priority = priority}

TargetsOf(actions, priority) ==
    {actions[k].target : k \in PositionsOf(actions, priority)}

\* the sorted list of the last get_prioritized_actions call before [:20]
ActionsBeforeCut ==
    sorted_actions(results[last.result], applied_controls,
                   CountingOrder(Cardinality(DOMAIN applied_controls)),
                   last.company, last.now)

\* at most 20 actions, the start of the list before the cut; critical before
\* high before medium; one action per source and, among the controls, in the
\* order of their codes
RankedAndCut(actions, out) ==
    /\ Len(out) = Min(20, Len(actions))
    /\ \A k \in DOMAIN out : out[k] = actions[k]
    /\ \A i \in DOMAIN actions, j \in DOMAIN actions :
          i < j =>
            /\ priority_order(actions[i].priority) <= priority_order(actions[j].priority)
            /\ actions[i].priority = actions[j].priority =>
                  actions[i].target # actions[j].target
            /\ (/\ actions[i].priority = actions[j].priority
                /\ actions[i].priority \in {"high", "medium"}) =>
                  actions[i].target < actions[j].target
    /\ \A k \in DOMAIN actions : actions[k].priority \in {"critical", "high", "medium"}

\* T holds the first k members of Z (all of them when Z has fewer)
FirstOf(T, Z, k) ==
    /\ T \subseteq Z
    /\ Cardinality(T) = Min(k, Cardinality(Z))
    /\ \A z \in Z \ T : \A t \in T : t < z

C24_RowsFrozenButDemotion ==
    [][/\ \A i \in DOMAIN results :
             /\ i \in DOMAIN results'
             /\ [results'[i] EXCEPT !.is_current = results[i].is_current] = results[i]
             /\ results'[i].is_current => results[i].is_current
       /\ \A i \in DOMAIN assessments :
             /\ i \in DOMAIN assessments'
             /\ [assessments'[i] EXCEPT !.is_current = assessments[i].is_current]
                   = assessments[i]
             /\ assessments'[i].is_current => assessments[i].is_current
    ]_vars

\* a demoted result next to a newer result of its scope with another score,
\* and a demoted assessment without notes next to a newer one with notes
C24_Witness ==
    /\ Len(results) >= 2
    /\ ~results[1].is_current
    /\ results[2].is_current
    /\ ScopeOf(results[1]) = ScopeOf(results[2])
    /\ results[1].compliance_score # results[2].compliance_score
    /\ Len(assessments) >= 2
    /\ ~assessments[1].is_current
    /\ assessments[1].assessment_notes = ""
    /\ assessments[2].is_current
    /\ assessments[2].assessment_notes = "note"
    /\ assessments[2].risk = assessments[1].risk

(* ---------------------------------------------------------------------- *)
\* both requests are over (committed or aborted), for two different matrices
BothActivationsOver ==
    /\ \A p \in Procs : tx[p].pc \in {"committed", "aborted"}
    /\ tx["p1"].matrix # tx["p2"].matrix

\* C25: two concurrent activate() calls on different matrices of one company
\* end, in every interleaving of their statements, with exactly one of the
\* two matrices active and every other matrix of the company inactive; the
\* matrices of other companies are untouched, and the calls never stay
\* blocked (an open request can always take a step).
C25_ConcurrentActivateOneActive ==
    /\ BothActivationsOver =>
          /\ matrices[tx["p1"].matrix].is_active # matrices[tx["p2"].matrix].is_active
          /\ \A i \in DOMAIN matrices :
                (/\ matrices[i].company = "c1"
                 /\ i \notin {tx["p1"].matrix, tx["p2"].matrix}) => ~matrices[i].is_active
          /\ \E p \in Procs : tx[p].pc = "committed"
    /\ \A i \in DOMAIN matrices : matrices[i].company = "c2" => matrices[i].is_active
    /\ (\E p \in Procs : tx[p].pc \in {"updating", "others_off", "saved"})
          => ENABLED NextLock

\* the two requests deadlocked: one was aborted, the other committed and its
\* matrix is the only active one of the company
C25_Witness ==
    /\ BothActivationsOver
    /\ tx["p1"].pc = "aborted"
    /\ tx["p2"].pc = "committed"
    /\ matrices[tx["p2"].matrix].is_active
    /\ ~matrices[tx["p1"].matrix].is_active

(* ---------------------------------------------------------------------- *)
\* the ids the ancestor walk of r meets
AncestorIds(reqs, r) ==
    {get_ancestors(reqs, r).ancestors[k] : k \in DOMAIN get_ancestors(reqs, r).ancestors}

\* assigning parent to r would make r its own ancestor in the table reqs
ClosesCycle(reqs, r, parent) ==
    /\ parent # NoParent
    /\ r \in DOMAIN reqs
    /\ parent = r \/ r \in AncestorIds(reqs, parent)

\* C26: after any sequence of creations and parent re-assignments accepted by
\* Requirement.clean no requirement is its own ancestor, every requirement
\* has the framework of its parent and the ancestor walks of every
\* requirement terminate; clean ends within one step per stored requirement
\* and an assignment that would close a cycle is answered with an error and
\* leaves the table as it was.
C26_ParentsFormForest ==
    /\ \A r \in DOMAIN requirements :
          /\ get_ancestors(requirements, r).finished
          /\ r \notin AncestorIds(requirements, r)
          /\ get_depth(requirements, r) < Len(requirements)
          /\ requirements[r].parent # NoParent
                => requirements[requirements[r].parent].framework = requirements[r].framework
    /\ last.steps <= Len(requirements) + 1
    /\ (last.op = "reassign" /\ last.error # "none")
          => requirements[last.req].parent # last.parent \/ last.parent = last.req
    /\ (last.op = "reassign" /\ last.error = "none")
          => requirements[last.req].parent = last.parent
    /\ (last.op = "reassign" /\ requirements[last.req].parent # last.parent)
          => last.error # "none"
    /\ (last.error = "circular")
          => ClosesCycle(requirements, last.req, last.parent)

\* a requirement two levels deep was offered its own grandchild as parent and
\* clean answered with the circular reference error
C26_Witness ==
    /\ last.op = "reassign"
    /\ last.error = "circular"
    /\ last.steps >= 3
    /\ get_depth(requirements, last.parent) >= 2
    /\ ClosesCycle(requirements, last.req, last.parent)

(* ---------------------------------------------------------------------- *)
\* the number of entries of a row's requirement_details with a status of S
StatusCount(row, S) ==
    Cardinality({r \in DOMAIN row.requirement_details :
                    row.requirement_details[r].status \in S})

\* C27: in every stored result the status counters partition the mandatory
\* requirements of the framework: compliant + partial + non_compliant =
\* total_requirements = the number of requirement_details entries = the
\* number of mandatory requirements; each counter is the number of entries
\* of its status, the requirements without any applied control (no_controls,
\* not_implemented) being counted as non-compliant; requirements_addressed
\* is the number of classified entries and at most total_requirements.
C27_StatusCountersPartition ==
    \A i \in DOMAIN results :
       /\ results[i].requirements_compliant + results[i].requirements_partial
             + results[i].requirements_non_compliant = results[i].total_requirements
       /\ results[i].total_requirements = Cardinality(DOMAIN results[i].requirement_details)
       /\ DOMAIN results[i].requirement_details
             = {mandatory_requirements(requirements, results[i].framework)[k] :
                  k \in DOMAIN mandatory_requirements(requirements, results[i].framework)}
       /\ results[i].requirements_compliant = StatusCount(results[i], {"compliant"})
       /\ results[i].requirements_partial = StatusCount(results[i], {"partial"})
       /\ results[i].requirements_non_compliant
             = StatusCount(results[i], {"non_compliant", "no_controls", "not_implemented"})
       /\ results[i].requirements_addressed
             = StatusCount(results[i], {"compliant", "partial", "non_compliant"})
       /\ results[i].requirements_addressed <= results[i].total_requirements

\* a result of two requirements, one with no validated mapping and one whose
\* controls were scored: the first is counted as non-compliant only
C27_Witness ==
    \E i \in DOMAIN results :
       /\ results[i].total_requirements = 2
       /\ StatusCount(results[i], {"no_controls"}) = 1
       /\ results[i].requirements_non_compliant = 1
       /\ results[i].requirements_addressed = 1
       /\ results[i].requirements_compliant + results[i].requirements_partial = 1

\* C28: in every stored result the gap counters coincide with the status
\* counters: high_risk_gaps = requirements_non_compliant, medium_risk_gaps =
\* requirements_partial, low_risk_gaps = 0, and so get_gap_count() =
\* total_requirements - requirements_compliant.
C28_GapCountersAreStatusCounters ==
    \A i \in DOMAIN results :
       /\ results[i].high_risk_gaps = results[i].requirements_non_compliant
       /\ results[i].medium_risk_gaps = results[i].requirements_partial
       /\ results[i].low_risk_gaps = 0
       /\ get_gap_count(results[i])
             = results[i].total_requirements - results[i].requirements_compliant

\* a result with a high gap from a scored requirement and a high gap from a
\* requirement without applied control, and one with a high and a medium gap
C28_Witness ==
    /\ \E i \in DOMAIN results :
          /\ results[i].high_risk_gaps = 2
          /\ StatusCount(results[i], {"non_compliant"}) = 1
          /\ get_gap_count(results[i]) = 2
    /\ \E i \in DOMAIN results :
          /\ results[i].medium_risk_gaps = 1
          /\ results[i].high_risk_gaps = 1
          /\ StatusCount(results[i], {"partial"}) = 1

(* ---------------------------------------------------------------------- *)
\* every pair of levels of the matrix scores likelihood x impact
ScoresAreProducts(matrix) ==
    \A l \in 1..matrix.likelihood_levels, i \in 1..matrix.impact_levels :
       calculate_risk_score(matrix, l, i).value = l * i

\* C29: an assessment made with a rating in 0..100 on a risk whose inherent
\* likelihood and impact lie within the levels of its matrix has 1 <=
\* residual_likelihood <= inherent_likelihood and 1 <= residual_impact <=
\* inherent_impact, the call does not raise and the row is stored; when the
\* matrix scores likelihood x impact the stored residual_score is at most the
\* risk's inherent_risk_score.
C29_ResidualWithinInherent ==
    /\ (last.op = "assess" /\ last.effectiveness_rating \in 0..100
           /\ risks[last.risk].inherent_likelihood
                 \in 1..matrices[risks[last.risk].risk_matrix].likelihood_levels
           /\ risks[last.risk].inherent_impact
                 \in 1..matrices[risks[last.risk].risk_matrix].impact_levels)
          => /\ ~last.raised
             /\ Len(assessments) > 0
             /\ assessments[Len(assessments)].risk = last.risk
             /\ assessments[Len(assessments)].effectiveness_rating
                   = last.effectiveness_rating
    /\ \A k \in DOMAIN assessments :
          /\ 1 <= assessments[k].residual_likelihood
          /\ assessments[k].residual_likelihood
                <= risks[assessments[k].risk].inherent_likelihood
          /\ 1 <= assessments[k].residual_impact
          /\ assessments[k].residual_impact <= risks[assessments[k].risk].inherent_impact
          /\ ScoresAreProducts(matrices[risks[assessments[k].risk].risk_matrix])
                => assessments[k].residual_score
                     <= risks[assessments[k].risk].inherent_risk_score

\* rating 100 on a risk of likelihood 2 and impact 3 of a 3x3 matrix without
\* score table: the floor holds the likelihood at 1, the pair (1, 1) scores 1
C29_Witness ==
    /\ last.op = "assess"
    /\ ~last.raised
    /\ last.effectiveness_rating = 100
    /\ matrices[risks[last.risk].risk_matrix].likelihood_levels = 3
    /\ ScoresAreProducts(matrices[risks[last.risk].risk_matrix])
    /\ risks[last.risk].inherent_likelihood = 2
    /\ risks[last.risk].inherent_impact = 3
    /\ risks[last.risk].inherent_risk_score = 6
    /\ assessments[Len(assessments)].residual_likelihood = 1
    /\ assessments[Len(assessments)].residual_impact = 1
    /\ assessments[Len(assessments)].residual_score = 1

(* ---------------------------------------------------------------------- *)
\* the current, non-deleted results of a company and framework, whatever
\* their department
CurrentAnyScope(company, framework) ==
    {i \in DOMAIN results : /\ results[i].company = company
                            /\ results[i].framework = framework
                            /\ results[i].is_current
                            /\ ~results[i].is_deleted}

====
